---- MODULE Spec2Model ----
(***************************************************************************)
(* Model of the TrustedHintController (src/src/TrustedHintController.ts):  *)
(* the client-side pipeline validate -> authorize -> [sign] -> submit in   *)
(* front of the trusted hint registry contract.                            *)
(*                                                                         *)
(* Every public operation is an async function.  One action of the model   *)
(* is one synchronous run of such a function: from its invocation, or from *)
(* the settlement of the promise it awaits, up to the next external call   *)
(* it issues (or up to its own settlement).  inv[p].calls records, in      *)
(* order, every external call invocation p has issued (what a mock of      *)
(* contract.read / contract.write / signTypedData would record).           *)
(***************************************************************************)
EXTENDS Integers, Sequences, FiniteSets, TLC

VARIABLES
  ctl,       \* the controller instance the constructor produced
  inv,       \* inv[p]: invocation p of a public operation
  registry,  \* the registry contract's storage (owner, nonces, hints, ...)
  procs      \* the invocations that may be started on the instance

vars == <<ctl, inv, registry, procs>>

(***************************************************************************)
(* Values                                                                  *)
(***************************************************************************)
Undefined == "undefined"

ALICE == "0xA11CE"
BOB   == "0xB0B"
Addresses == {ALICE, BOB}

RegistryAddress == "0xREG"
\* An address that is not the deployment of any chain.
CustomAddress   == "0xC057"

\* Optional arguments: `metadata?: BytesHex` / `metadata?: BytesHex[]`.
None    == [some |-> FALSE, val |-> Undefined]
Some(v) == [some |-> TRUE, val |-> v]

\* JS truthiness of an optional BytesHex / BytesHex[] argument: undefined is
\* falsy; a `0x...` string (also the empty byte string '0x') and an array
\* (also the empty array []) are truthy.
Truthy(m) == m.some

\* A viem client as the controller sees it: its chain (id) and its account
\* (address), either of which may be undefined; NoClient is an absent client.
NoClient == [set |-> FALSE, chain |-> Undefined, account |-> Undefined]
Client(chain, account) == [set |-> TRUE, chain |-> chain, account |-> account]

(***************************************************************************)
(* Bounds of the inputs                                                    *)
(***************************************************************************)
MaxLen == 2

KeyPool   == <<"k1", "k2", "k3", "k4">>
ValuePool == <<"v1", "v2", "v3", "v4">>
MetaPool  == <<"0xm1", "0xm2", "0xm3", "0xm4">>

Prefix(pool, n) == SubSeq(pool, 1, n)
RECURSIVE Reverse(_)
Reverse(s) == IF s = <<>> THEN <<>> ELSE Append(Reverse(Tail(s)), Head(s))

Namespaces == {ALICE}
Lists      == {"list"}
Keys       == {"k1"}
Values     == {"v1", "v2"}
Metadatas  == {None, Some("0x"), Some("0xm1")}
BatchKeys   == {Prefix(KeyPool, n) : n \in 0..MaxLen}
BatchValues == {Prefix(ValuePool, n) : n \in 0..MaxLen} \cup {Reverse(Prefix(ValuePool, MaxLen))}
BatchMetadatas == {None} \cup {Some(Prefix(MetaPool, n)) : n \in {0, MaxLen}}
TxHashes   == {"0xtx1", "0xtx2"}


(***************************************************************************)
(* utils: getDeployment and the schema selector getSignedDataType          *)
(***************************************************************************)
SEPOLIA    == "11155111"
OtherChain == "1"

\* `deployments` of @spherity/trusted-hint-registry: the registry is deployed
\* (as a proxy) on one chain of the model.
deployments == {[chainId |-> SEPOLIA, type |-> "proxy", registry |-> RegistryAddress]}

\* `!chainId`: an absent chain and the chain id 0 are both falsy.
FalsyChainId(chainId) == chainId \in {Undefined, "0"}

getDeployment(client, type) ==
  LET chainId == client.chain
      found   == {d \in deployments : d.chainId = chainId /\ d.type = type}
  IN  IF FalsyChainId(chainId)
        THEN [threw |-> TRUE, error |-> "No chainId found in provided readClient",
              registry |-> Undefined]
      ELSE IF found = {}
        THEN [threw |-> TRUE,
              error |-> "No deployment found for chainId " \o chainId \o " and type " \o type,
              registry |-> Undefined]
      ELSE [threw |-> FALSE, error |-> Undefined,
            registry |-> (CHOOSE d \in found : TRUE).registry]

\* enum SignedDataType, in declaration order.
SignedDataType ==
  << "SetHintSigned", "SetHintSignedMetadata", "SetHintsSigned", "SetHintsSignedMetadata",
     "SetHintDelegatedSigned", "SetHintDelegatedSignedMetadata",
     "SetHintsDelegatedSigned", "SetHintsDelegatedSignedMetadata",
     "AddListDelegateSigned", "RemoveListDelegateSigned", "SetListStatusSigned",
     "SetListOwnerSigned", "SetMetadataSigned", "SetMetadataDelegatedSigned" >>

SignedDataTypes == {SignedDataType[i] : i \in 1..Len(SignedDataType)}

\* Mutant: the metadata field of the batch schemas keeps the type of the single
\* schemas it was copied from.
F_MetadataAlwaysBytes(name, type) == <<name, IF name = "metadata" THEN "bytes" ELSE type>>

\* {name: ..., type: ...}
F(name, type) == <<name, type>>

\* Mutant: every schema lists the nonce before the signer.
Schema_NonceBeforeSigner(struct, fields) ==
  [threw |-> FALSE, error |-> Undefined, struct |-> struct,
   fields |-> [k \in DOMAIN fields |->
                 IF k = Len(fields) - 1 THEN fields[Len(fields)]
                 ELSE IF k = Len(fields) THEN fields[Len(fields) - 1]
                 ELSE fields[k]]]

Schema(struct, fields) == [threw |-> FALSE, error |-> Undefined, struct |-> struct, fields |-> fields]

\* switch (type): one schema per enum member, the default case throws.
getSignedDataType(type) ==
  CASE type = "SetHintSigned" ->
         Schema("SetHintSigned", <<
           F("namespace", "address"),
           F("list", "bytes32"),
           F("key", "bytes32"),
           F("value", "bytes32"),
           F("signer", "address"),
           F("nonce", "uint256") >>)
    [] type = "SetHintSignedMetadata" ->
         Schema("SetHintSigned", <<
           F("namespace", "address"),
           F("list", "bytes32"),
           F("key", "bytes32"),
           F("value", "bytes32"),
           F("metadata", "bytes"),
           F("signer", "address"),
           F("nonce", "uint256") >>)
    [] type = "SetHintsSigned" ->
         Schema("SetHintsSigned", <<
           F("namespace", "address"),
           F("list", "bytes32"),
           F("keys", "bytes32[]"),
           F("values", "bytes32[]"),
           F("signer", "address"),
           F("nonce", "uint256") >>)
    [] type = "SetHintsSignedMetadata" ->
         Schema("SetHintsSigned", <<
           F("namespace", "address"),
           F("list", "bytes32"),
           F("keys", "bytes32[]"),
           F("values", "bytes32[]"),
           F("metadata", "bytes[]"),
           F("signer", "address"),
           F("nonce", "uint256") >>)
    [] type = "SetHintDelegatedSigned" ->
         Schema("SetHintDelegatedSigned", <<
           F("namespace", "address"),
           F("list", "bytes32"),
           F("key", "bytes32"),
           F("value", "bytes32"),
           F("signer", "address"),
           F("nonce", "uint256") >>)
    [] type = "SetHintDelegatedSignedMetadata" ->
         Schema("SetHintDelegatedSigned", <<
           F("namespace", "address"),
           F("list", "bytes32"),
           F("key", "bytes32"),
           F("value", "bytes32"),
           F("metadata", "bytes"),
           F("signer", "address"),
           F("nonce", "uint256") >>)
    [] type = "SetHintsDelegatedSigned" ->
         Schema("SetHintsDelegatedSigned", <<
           F("namespace", "address"),
           F("list", "bytes32"),
           F("keys", "bytes32[]"),
           F("values", "bytes32[]"),
           F("signer", "address"),
           F("nonce", "uint256") >>)
    [] type = "SetHintsDelegatedSignedMetadata" ->
         Schema("SetHintsDelegatedSigned", <<
           F("namespace", "address"),
           F("list", "bytes32"),
           F("keys", "bytes32[]"),
           F("values", "bytes32[]"),
           F("metadata", "bytes[]"),
           F("signer", "address"),
           F("nonce", "uint256") >>)
    [] type = "AddListDelegateSigned" ->
         Schema("AddListDelegateSigned", <<
           F("namespace", "address"),
           F("list", "bytes32"),
           F("delegate", "address"),
           F("untilTimestamp", "uint256"),
           F("signer", "address"),
           F("nonce", "uint256") >>)
    [] type = "RemoveListDelegateSigned" ->
         Schema("RemoveListDelegateSigned", <<
           F("namespace", "address"),
           F("list", "bytes32"),
           F("delegate", "address"),
           F("signer", "address"),
           F("nonce", "uint256") >>)
    [] type = "SetListStatusSigned" ->
         Schema("SetListStatusSigned", <<
           F("namespace", "address"),
           F("list", "bytes32"),
           F("revoked", "bool"),
           F("signer", "address"),
           F("nonce", "uint256") >>)
    [] type = "SetListOwnerSigned" ->
         Schema("SetListOwnerSigned", <<
           F("namespace", "address"),
           F("list", "bytes32"),
           F("newOwner", "address"),
           F("signer", "address"),
           F("nonce", "uint256") >>)
    [] type = "SetMetadataSigned" ->
         Schema("SetMetadataSigned", <<
           F("namespace", "address"),
           F("list", "bytes32"),
           F("key", "bytes32"),
           F("value", "bytes32"),
           F("metadata", "bytes"),
           F("signer", "address"),
           F("nonce", "uint256") >>)
    [] type = "SetMetadataDelegatedSigned" ->
         Schema("SetMetadataDelegatedSigned", <<
           F("namespace", "address"),
           F("list", "bytes32"),
           F("key", "bytes32"),
           F("value", "bytes32"),
           F("metadata", "bytes"),
           F("signer", "address"),
           F("nonce", "uint256") >>)
    [] OTHER ->
         [threw |-> TRUE, error |-> "Unknown signed data type " \o type,
          struct |-> Undefined, fields |-> <<>>]

\* SignedDataType.<name> as the controller writes it: the member, or undefined
\* where the enum declares no member of that name.
SignedDataTypeMember(name) == IF name \in SignedDataTypes THEN name ELSE Undefined

\* src/utils.ts, the module the controller imports as "./utils", declares an
\* enum SignedDataType of two members and a selector of two cases.
utils_SignedDataType == << "SetHintSigned", "SetHintSignedMetadata" >>

utils_SignedDataTypes == {utils_SignedDataType[i] : i \in 1..Len(utils_SignedDataType)}

utils_SignedDataTypeMember(name) == IF name \in utils_SignedDataTypes THEN name ELSE Undefined

utils_getSignedDataType(type) ==
  CASE type = "SetHintSigned" ->
         Schema("SetHintSigned", <<
           F("namespace", "address"),
           F("list", "bytes32"),
           F("key", "bytes32"),
           F("value", "bytes32"),
           F("signer", "address"),
           F("nonce", "uint256") >>)
    [] type = "SetHintSignedMetadata" ->
         Schema("SetHintSigned", <<
           F("namespace", "address"),
           F("list", "bytes32"),
           F("key", "bytes32"),
           F("value", "bytes32"),
           F("metadata", "bytes"),
           F("signer", "address"),
           F("nonce", "uint256") >>)
    [] OTHER ->
         [threw |-> TRUE, error |-> "Unknown signed data type " \o type,
          struct |-> Undefined, fields |-> <<>>]

(***************************************************************************)
(* The controller instance                                                 *)
(***************************************************************************)
\* `a ?? b` on clients.
Coalesce(a, b) == IF a.set THEN a ELSE b

Config(readClient, walletClient, metaTransactionWalletClient, registryAddress) ==
  [readClient |-> readClient, walletClient |-> walletClient,
   metaTransactionWalletClient |-> metaTransactionWalletClient,
   registryAddress |-> registryAddress]

\* Mutant: the constructor does not look at whether a client was supplied.
Constructor_NoClientCheck(config) ==
  LET client     == Coalesce(config.readClient, config.walletClient)
      deployment == getDeployment(client, "proxy")
      fields     == [readClient |-> config.readClient,
                     walletClient |-> config.walletClient,
                     metaTransactionWalletClient |-> config.metaTransactionWalletClient]
      Threw(msg) == fields @@ [threw |-> TRUE, error |-> msg,
                               contract |-> [address |-> Undefined, client |-> NoClient]]
  IN  IF config.registryAddress = Undefined /\ deployment.threw
        THEN Threw(deployment.error)
      ELSE fields @@
           [threw |-> FALSE, error |-> Undefined,
            contract |-> [address |-> IF config.registryAddress = Undefined
                                        THEN deployment.registry
                                        ELSE config.registryAddress,
                          client |-> client]]

\* Mutant: the deployment is looked up whether or not an address is configured.
Constructor_LookupAlways(config) ==
  LET client     == Coalesce(config.readClient, config.walletClient)
      deployment == getDeployment(client, "proxy")
      fields     == [readClient |-> config.readClient,
                     walletClient |-> config.walletClient,
                     metaTransactionWalletClient |-> config.metaTransactionWalletClient]
      Threw(msg) == fields @@ [threw |-> TRUE, error |-> msg,
                               contract |-> [address |-> Undefined, client |-> NoClient]]
  IN  IF ~config.readClient.set /\ ~config.walletClient.set
        THEN Threw("Either readClient or walletClient must be provided")
      ELSE IF deployment.threw
        THEN Threw(deployment.error)
      ELSE fields @@
           [threw |-> FALSE, error |-> Undefined,
            contract |-> [address |-> IF config.registryAddress = Undefined
                                        THEN deployment.registry
                                        ELSE config.registryAddress,
                          client |-> client]]

\* constructor(config): the instance, or threw = TRUE and the error's message.
Constructor(config) ==
  LET client     == Coalesce(config.readClient, config.walletClient)
      deployment == getDeployment(client, "proxy")
      fields     == [readClient |-> config.readClient,
                     walletClient |-> config.walletClient,
                     metaTransactionWalletClient |-> config.metaTransactionWalletClient]
      Threw(msg) == fields @@ [threw |-> TRUE, error |-> msg,
                               contract |-> [address |-> Undefined, client |-> NoClient]]
  IN  IF ~config.readClient.set /\ ~config.walletClient.set
        THEN Threw("Either readClient or walletClient must be provided")
      ELSE IF config.registryAddress = Undefined /\ deployment.threw
        THEN Threw(deployment.error)
      ELSE fields @@
           [threw |-> FALSE, error |-> Undefined,
            contract |-> [address |-> IF config.registryAddress = Undefined
                                        THEN deployment.registry
                                        ELSE config.registryAddress,
                          client |-> client]]


(***************************************************************************)
(* Error messages of the controller                                        *)
(***************************************************************************)
MsgWalletClient  == "WalletClient must have a chain and account set."
MsgMetaNotSet    == "metaTransactionWalletClient must be set when creating a TrustedHintController instance"
MsgChainMismatch == "Provided WalletClient and MetaTransactionWalletClient must be on the same chain."
MsgWalletNotOwner == "Provided WalletClient must be the owner of the namespace."
MsgMetaNotOwner   == "Provided MetaTransactionWalletClient must be the owner of the namespace."
MsgDomainChain    == "WalletClient must have a chain set."

\* Failures of the collaborators (the `e.message` of what they reject with).
MsgRpc      == "HTTP request failed."
MsgReverted == "execution reverted"
MsgUserRejected == "User rejected the request."
MsgBigInt   == "The number cannot be converted to a BigInt because it is not an integer"

(***************************************************************************)
(* The public operations, as tables over the operation                     *)
(***************************************************************************)
DirectOps == {"setHint", "setHints", "addListDelegate"}
SignedOps == {"setHintSigned", "setHintsSigned"}
BatchOps  == {"setHints", "setHintsSigned"}
Ops       == DirectOps \cup SignedOps

\* Mutant: the chains of the two wallets are not compared.
PreconditionsSigned_NoChainCheck(c) ==
  LET meta == c.metaTransactionWalletClient
      wallet == c.walletClient
  IN  IF ~meta.set \/ meta.account = Undefined THEN MsgMetaNotSet
      ELSE IF wallet.chain = Undefined \/ wallet.account = Undefined THEN MsgWalletClient
      ELSE "ok"

\* Mutant: the relaying wallet is validated before the signing wallet.
PreconditionsSigned_WalletFirst(c) ==
  LET meta == c.metaTransactionWalletClient
      wallet == c.walletClient
  IN  IF wallet.chain = Undefined \/ wallet.account = Undefined THEN MsgWalletClient
      ELSE IF ~meta.set \/ meta.account = Undefined THEN MsgMetaNotSet
      ELSE IF meta.chain # wallet.chain THEN MsgChainMismatch
      ELSE "ok"

\* Mutant: the signing wallet is only required to be set, with or without an
\* account.
PreconditionsSigned_SetOnly(c) ==
  LET meta == c.metaTransactionWalletClient
      wallet == c.walletClient
  IN  IF ~meta.set THEN MsgMetaNotSet
      ELSE IF wallet.chain = Undefined \/ wallet.account = Undefined THEN MsgWalletClient
      ELSE IF meta.chain # wallet.chain THEN MsgChainMismatch
      ELSE "ok"

\* The precondition checks before the try block: the message thrown, or "ok".
PreconditionsSigned(c) ==
  LET meta == c.metaTransactionWalletClient
      wallet == c.walletClient
  IN  IF ~meta.set \/ meta.account = Undefined THEN MsgMetaNotSet
      ELSE IF wallet.chain = Undefined \/ wallet.account = Undefined THEN MsgWalletClient
      ELSE IF meta.chain # wallet.chain THEN MsgChainMismatch
      ELSE "ok"

\* Mutant: only the account of the wallet is required.
PreconditionsDirect_AccountOnly(c) ==
  IF c.walletClient.account = Undefined THEN MsgWalletClient ELSE "ok"

PreconditionsDirect(c) ==
  IF c.walletClient.chain = Undefined \/ c.walletClient.account = Undefined
    THEN MsgWalletClient
    ELSE "ok"

Preconditions(op, c) ==
  IF op \in SignedOps THEN PreconditionsSigned(c) ELSE PreconditionsDirect(c)

\* Mutant: the owner check is made for the sender of the transaction.
AuthAddress_Relayer(op, c) == c.walletClient.account

\* The address the owner check is made for.
AuthAddress(op, c) ==
  IF op \in SignedOps THEN c.metaTransactionWalletClient.account
                      ELSE c.walletClient.account

NotOwnerMessage(op) ==
  IF op \in SignedOps THEN MsgMetaNotOwner ELSE MsgWalletNotOwner

\* Mutant: the batch operation reports under the message of the single one.
ErrorPrefix_CopiedFromSetHint(op) ==
  CASE op = "setHint"         -> "Failed to set hint: "
    [] op = "setHintSigned"   -> "Failed to set hint signed: "
    [] op = "setHints"        -> "Failed to set hint: "
    [] op = "setHintsSigned"  -> "Failed to set hints signed: "
    [] op = "addListDelegate" -> "Failed to add list delegate: "

\* catch (e) { throw new Error(`Failed to ...: ${e.message}`) }; for the
\* delegated operations: throw new HintSetError(`Failed to ...: ${e.message}`),
\* whose constructor puts `Failed to set hint: ` in front.
ErrorPrefix(op) ==
  CASE op = "setHint"         -> "Failed to set hint: "
    [] op = "setHintSigned"   -> "Failed to set hint signed: "
    [] op = "setHints"        -> "Failed to set hints: "
    [] op = "setHintsSigned"  -> "Failed to set hints signed: "
    [] op = "addListDelegate" -> "Failed to add list delegate: "
    [] op = "setHintDelegated" -> "Failed to set hint: Failed to set hint delegated: "
    [] op = "setHintDelegatedSigned" -> "Failed to set hint: Failed to set hint delegate signed: "

Wrapped(op, message) == ErrorPrefix(op) \o message

\* BigInt(delegateUntil): a number that is no integer throws RangeError, a
\* bigint or an integral number converts to the bigint of the same value.
BigIntThrows(x) == x.kind = "number" /\ ~x.integral
BigInt(x) == x.val

\* Mutant: the schema with metadata is selected for non-empty metadata only.
SignedTypeKey_EmptyIsAbsent(op, params) ==
  LET present == /\ Truthy(params.metadata)
                 /\ IF op = "setHintsSigned" THEN Len(params.metadata.val) > 0
                                             ELSE params.metadata.val # "0x"
  IN  CASE op = "setHintSigned" ->
             IF present THEN "SetHintSignedMetadata" ELSE "SetHintSigned"
        [] op = "setHintsSigned" ->
             IF present THEN "SetHintsSignedMetadata" ELSE "SetHintsSigned"
        [] op = "setHintDelegatedSigned" ->
             IF present THEN "SetHintDelegatedSignedMetadata" ELSE "SetHintDelegatedSigned"

\* The schema requested of the selector.
SignedTypeKey(op, params) ==
  CASE op = "setHintSigned" ->
         IF Truthy(params.metadata) THEN "SetHintSignedMetadata" ELSE "SetHintSigned"
    [] op = "setHintsSigned" ->
         IF Truthy(params.metadata) THEN "SetHintsSignedMetadata" ELSE "SetHintsSigned"
    [] op = "setHintDelegatedSigned" ->
         IF Truthy(params.metadata) THEN "SetHintDelegatedSignedMetadata"
                                    ELSE "SetHintDelegatedSigned"

PrimaryType(op) ==
  CASE op = "setHintSigned"  -> "SetHintSigned"
    [] op = "setHintsSigned" -> "SetHintsSigned"
    [] op = "setHintDelegatedSigned" -> "SetHintDelegatedSigned"

\* Mutant: the message lists the nonce before the signer.
Message_NonceBeforeSigner(op, params, signer, nonce) ==
  LET single == op \in {"setHintSigned", "setHintDelegatedSigned"}
      head   == << <<"namespace", params.namespace>>, <<"list", params.list>>,
                   <<IF single THEN "key" ELSE "keys", IF single THEN params.key ELSE params.keys>>,
                   <<IF single THEN "value" ELSE "values",
                     IF single THEN params.value ELSE params.values>> >>
      meta   == IF Truthy(params.metadata) THEN << <<"metadata", params.metadata.val>> >>
                                           ELSE <<>>
  IN  head \o meta \o << <<"nonce", nonce>>, <<"signer", signer>> >>

\* The message object, as its <<field, value>> pairs in insertion order.
Message(op, params, signer, nonce) ==
  CASE op \in {"setHintSigned", "setHintDelegatedSigned"} ->
         IF Truthy(params.metadata)
           THEN << <<"namespace", params.namespace>>, <<"list", params.list>>,
                   <<"key", params.key>>, <<"value", params.value>>,
                   <<"metadata", params.metadata.val>>,
                   <<"signer", signer>>, <<"nonce", nonce>> >>
           ELSE << <<"namespace", params.namespace>>, <<"list", params.list>>,
                   <<"key", params.key>>, <<"value", params.value>>,
                   <<"signer", signer>>, <<"nonce", nonce>> >>
    [] op = "setHintsSigned" ->
         IF Truthy(params.metadata)
           THEN << <<"namespace", params.namespace>>, <<"list", params.list>>,
                   <<"keys", params.keys>>, <<"values", params.values>>,
                   <<"metadata", params.metadata.val>>,
                   <<"signer", signer>>, <<"nonce", nonce>> >>
           ELSE << <<"namespace", params.namespace>>, <<"list", params.list>>,
                   <<"keys", params.keys>>, <<"values", params.values>>,
                   <<"signer", signer>>, <<"nonce", nonce>> >>

\* Mutant: the version is a literal of the controller.
EIP712Domain_FixedVersion(c, version) ==
  [name |-> "TrustedHintRegistry", version |-> "1.0.0",
   chainId |-> c.metaTransactionWalletClient.chain,
   verifyingContract |-> c.contract.address]

\* getEIP712Domain(), given the version the registry reported.
EIP712Domain(c, version) ==
  [name |-> "TrustedHintRegistry", version |-> version,
   chainId |-> c.metaTransactionWalletClient.chain,
   verifyingContract |-> c.contract.address]

\* Mutant: the signed variants submit the arguments of the call without
\* metadata whether or not metadata was supplied.
WriteArgs_SignedDropsMetadata(op, params, signer, signature) ==
  CASE op = "setHint" ->
         IF Truthy(params.metadata)
           THEN <<params.namespace, params.list, params.key, params.value, params.metadata.val>>
           ELSE <<params.namespace, params.list, params.key, params.value>>
    [] op = "setHintSigned" ->
         <<params.namespace, params.list, params.key, params.value, signer, signature>>
    [] op = "setHints" ->
         IF Truthy(params.metadata)
           THEN <<params.namespace, params.list, params.keys, params.values, params.metadata.val>>
           ELSE <<params.namespace, params.list, params.keys, params.values>>
    [] op = "setHintsSigned" ->
         <<params.namespace, params.list, params.keys, params.values, signer, signature>>
    [] op = "addListDelegate" ->
         <<params.namespace, params.list, params.delegate, BigInt(params.delegateUntil)>>

\* Mutant: setHint passes the value where the registry expects the key.
WriteArgs_ValueBeforeKey(op, params, signer, signature) ==
  CASE op = "setHint" ->
         IF Truthy(params.metadata)
           THEN <<params.namespace, params.list, params.value, params.key, params.metadata.val>>
           ELSE <<params.namespace, params.list, params.value, params.key>>
    [] op = "setHintSigned" ->
         IF Truthy(params.metadata)
           THEN <<params.namespace, params.list, params.key, params.value, params.metadata.val,
                  signer, signature>>
           ELSE <<params.namespace, params.list, params.key, params.value, signer, signature>>
    [] op = "setHints" ->
         IF Truthy(params.metadata)
           THEN <<params.namespace, params.list, params.keys, params.values, params.metadata.val>>
           ELSE <<params.namespace, params.list, params.keys, params.values>>
    [] op = "setHintsSigned" ->
         IF Truthy(params.metadata)
           THEN <<params.namespace, params.list, params.keys, params.values, params.metadata.val,
                  signer, signature>>
           ELSE <<params.namespace, params.list, params.keys, params.values, signer, signature>>
    [] op = "addListDelegate" ->
         <<params.namespace, params.list, params.delegate, BigInt(params.delegateUntil)>>

\* Mutant: setHints passes the values array where the registry expects the
\* keys array.
WriteArgs_ValuesBeforeKeys(op, params, signer, signature) ==
  CASE op = "setHint" ->
         IF Truthy(params.metadata)
           THEN <<params.namespace, params.list, params.key, params.value, params.metadata.val>>
           ELSE <<params.namespace, params.list, params.key, params.value>>
    [] op = "setHintSigned" ->
         IF Truthy(params.metadata)
           THEN <<params.namespace, params.list, params.key, params.value, params.metadata.val,
                  signer, signature>>
           ELSE <<params.namespace, params.list, params.key, params.value, signer, signature>>
    [] op = "setHints" ->
         IF Truthy(params.metadata)
           THEN <<params.namespace, params.list, params.values, params.keys, params.metadata.val>>
           ELSE <<params.namespace, params.list, params.values, params.keys>>
    [] op = "setHintsSigned" ->
         IF Truthy(params.metadata)
           THEN <<params.namespace, params.list, params.keys, params.values, params.metadata.val,
                  signer, signature>>
           ELSE <<params.namespace, params.list, params.keys, params.values, signer, signature>>
    [] op = "addListDelegate" ->
         <<params.namespace, params.list, params.delegate, BigInt(params.delegateUntil)>>

\* The positional arguments of the write call.
WriteArgs(op, params, signer, signature) ==
  CASE op \in {"setHint", "setHintDelegated"} ->
         IF Truthy(params.metadata)
           THEN <<params.namespace, params.list, params.key, params.value, params.metadata.val>>
           ELSE <<params.namespace, params.list, params.key, params.value>>
    [] op \in {"setHintSigned", "setHintDelegatedSigned"} ->
         IF Truthy(params.metadata)
           THEN <<params.namespace, params.list, params.key, params.value, params.metadata.val,
                  signer, signature>>
           ELSE <<params.namespace, params.list, params.key, params.value, signer, signature>>
    [] op = "setHints" ->
         IF Truthy(params.metadata)
           THEN <<params.namespace, params.list, params.keys, params.values, params.metadata.val>>
           ELSE <<params.namespace, params.list, params.keys, params.values>>
    [] op = "setHintsSigned" ->
         IF Truthy(params.metadata)
           THEN <<params.namespace, params.list, params.keys, params.values, params.metadata.val,
                  signer, signature>>
           ELSE <<params.namespace, params.list, params.keys, params.values, signer, signature>>
    [] op = "addListDelegate" ->
         <<params.namespace, params.list, params.delegate, BigInt(params.delegateUntil)>>

\* { chain: this.walletClient.chain, account: this.walletClient.account }
WriteOptions(c) == [chain |-> c.walletClient.chain, account |-> c.walletClient.account]

\* The registry function an operation writes through.
WriteFunction(op) == op


(***************************************************************************)
(* The collaborators: the registry contract and the signing wallet         *)
(***************************************************************************)
RegistryName    == "TrustedHintRegistry"
RegistryVersion == "1.0.0"
UpgradedVersion == "1.1.0"

ListIds == Namespaces \X Lists

\* A finite map with one more binding.
Put(m, k, v) == [x \in DOMAIN m \cup {k} |-> IF x = k THEN v ELSE m[x]]

\* identityIsOwner([namespace, list, identity]) on the registry's storage.
IdentityIsOwner(reg, args) == reg.owner[<<args[1], args[2]>>] = args[3]

\* The registry's unsigned integers are 256 bits wide; the model keeps
\* UintWidth bits of them.
UintWidth == 3
UintMax   == 2^UintWidth - 1

\* What the registry's reads return for a slot that was never written.
ZeroBytes32 == "0x0000"
EmptyBytes  == "0x"

\* getHint([namespace, list, key]) on the registry's storage.
RegistryGetHint(reg, args) ==
  LET slot == <<args[1], args[2], args[3]>>
  IN  IF slot \in DOMAIN reg.hints THEN reg.hints[slot] ELSE ZeroBytes32

\* getMetadata([namespace, list, key, value]) on the registry's storage.
RegistryGetMetadata(reg, args) ==
  LET slot == <<args[1], args[2], args[3], args[4]>>
  IN  IF slot \in DOMAIN reg.metadata THEN reg.metadata[slot] ELSE EmptyBytes

\* signTypedData: the signature stands for what was signed and by whom.
Sign(request) ==
  [signedBy |-> request.account, domain |-> request.domain, types |-> request.types,
   primaryType |-> request.primaryType, message |-> request.message]

IsBatchFn(fn)  == fn \in {"setHints", "setHintsSigned"}
IsSignedFn(fn) == fn \in {"setHintSigned", "setHintsSigned", "setHintDelegatedSigned"}
IsDelegatedFn(fn) == fn \in {"setHintDelegated", "setHintDelegatedSigned"}

\* identityIsDelegate([namespace, list, identity]) on the registry's storage:
\* the identity was added as a delegate until a time that has not passed (the
\* registry's clock stands at RegistryNow).
RegistryNow == 0
IdentityIsDelegate(reg, args) ==
  LET slot == <<args[1], args[2], args[3]>>
  IN  slot \in DOMAIN reg.delegates /\ reg.delegates[slot] > RegistryNow

\* Number of arguments of a write without metadata.
BaseArity(fn) == IF IsSignedFn(fn) THEN 6 ELSE 4
HasMetadataArg(fn, args) == fn # "addListDelegate" /\ Len(args) = BaseArity(fn) + 1

\* The message the registry hashes when it recovers the signer of a signed write.
RegistryMessage(reg, fn, args) ==
  LET n      == Len(args)
      signer == args[n - 1]
      k      == IF IsBatchFn(fn) THEN "keys" ELSE "key"
      v      == IF IsBatchFn(fn) THEN "values" ELSE "value"
      head   == << <<"namespace", args[1]>>, <<"list", args[2]>>, <<k, args[3]>>, <<v, args[4]>> >>
      meta   == IF HasMetadataArg(fn, args) THEN << <<"metadata", args[5]>> >> ELSE <<>>
  IN  head \o meta \o << <<"signer", signer>>, <<"nonce", reg.nonces[signer]>> >>

RegistryDomain(reg, call) ==
  [name |-> RegistryName, version |-> reg.version, chainId |-> call.opts.chain,
   verifyingContract |-> RegistryAddress]

\* The principal a write is attributed to: the recovered signer of a signed
\* write (none when the signature does not verify), the sender of a direct one.
WritePrincipal(reg, call) ==
  IF IsSignedFn(call.fn)
    THEN LET sig    == call.args[Len(call.args)]
             signer == call.args[Len(call.args) - 1]
         IN  IF /\ sig.signedBy = signer
                /\ sig.domain = RegistryDomain(reg, call)
                /\ sig.message = RegistryMessage(reg, call.fn, call.args)
               THEN signer ELSE Undefined
    ELSE call.opts.account

BatchLengthsAgree(call) ==
  /\ Len(call.args[3]) = Len(call.args[4])
  /\ HasMetadataArg(call.fn, call.args) => Len(call.args[5]) = Len(call.args[3])

\* Whether the registry executes the write (otherwise the transaction reverts).
RegistryAccepts(reg, call) ==
  /\ call.address = RegistryAddress
  /\ call.fn = "addListDelegate" => (call.args[4] >= 0 /\ call.args[4] <= UintMax)
  /\ IF IsDelegatedFn(call.fn)
       THEN IdentityIsDelegate(reg, <<call.args[1], call.args[2], WritePrincipal(reg, call)>>)
       ELSE WritePrincipal(reg, call) = reg.owner[<<call.args[1], call.args[2]>>]
  /\ IsBatchFn(call.fn) => BatchLengthsAgree(call)

RECURSIVE PutHints(_, _, _, _, _)
PutHints(hints, ns, list, keys, values) ==
  IF keys = <<>> THEN hints
  ELSE PutHints(Put(hints, <<ns, list, Head(keys)>>, Head(values)), ns, list,
                Tail(keys), Tail(values))

RECURSIVE PutMetadatas(_, _, _, _, _, _)
PutMetadatas(md, ns, list, keys, values, metas) ==
  IF keys = <<>> THEN md
  ELSE PutMetadatas(Put(md, <<ns, list, Head(keys), Head(values)>>, Head(metas)), ns, list,
                    Tail(keys), Tail(values), Tail(metas))

\* The registry's storage after it executed the write.
RegistryApply(reg, call) ==
  LET a      == call.args
      hasMd  == HasMetadataArg(call.fn, a)
      keys   == IF IsBatchFn(call.fn) THEN a[3] ELSE <<a[3]>>
      values == IF IsBatchFn(call.fn) THEN a[4] ELSE <<a[4]>>
      metas  == IF ~hasMd THEN <<>> ELSE IF IsBatchFn(call.fn) THEN a[5] ELSE <<a[5]>>
      signer == a[Len(a) - 1]
  IN  IF call.fn = "addListDelegate"
        THEN [reg EXCEPT !.delegates = Put(@, <<a[1], a[2], a[3]>>, a[4])]
        ELSE [reg EXCEPT
                !.hints    = PutHints(@, a[1], a[2], keys, values),
                !.metadata = IF hasMd THEN PutMetadatas(@, a[1], a[2], keys, values, metas) ELSE @,
                !.nonces   = IF IsSignedFn(call.fn) THEN [@ EXCEPT ![signer] = @ + 1] ELSE @]

(***************************************************************************)
(* Invocations                                                             *)
(***************************************************************************)
NoOptions == [chain |-> Undefined, account |-> Undefined]

ReadCall(c, fn, args) ==
  [target |-> "read", fn |-> fn, args |-> args, opts |-> NoOptions, address |-> c.contract.address]
WriteCall(c, fn, args, opts) ==
  [target |-> "write", fn |-> fn, args |-> args, opts |-> opts, address |-> c.contract.address]
SignCall(request) ==
  [target |-> "wallet", fn |-> "signTypedData", args |-> request, opts |-> NoOptions,
   address |-> Undefined]

IdleInvocation ==
  [pc |-> "idle", op |-> Undefined, params |-> <<>>, signerNonce |-> 0,
   status |-> "pending", value |-> Undefined, calls |-> <<>>, returns |-> <<>>]

\* The invocation issues an external call and suspends on its promise.
Issue(i, call) == [i EXCEPT !.pc = call.fn, !.calls = Append(@, call)]
IssueWrite(i, call) == [i EXCEPT !.pc = "write", !.calls = Append(@, call)]

\* The promise of the invocation settles.
Rejected(i, message) == [i EXCEPT !.pc = "done", !.status = "rejected", !.value = message]
Resolved(i, value)   == [i EXCEPT !.pc = "done", !.status = "resolved", !.value = value]

LastCall(i) == i.calls[Len(i.calls)]

\* The collaborator settles the promise of the invocation's last call:
\* returns[k] is the outcome of calls[k].
Fulfilled(i, value) == [i EXCEPT !.returns = Append(@, [ok |-> TRUE, value |-> value])]
Failed(i, message)  == [i EXCEPT !.returns = Append(@, [ok |-> FALSE, value |-> message])]


(***************************************************************************)
(* The synchronous runs of an operation between two suspensions            *)
(***************************************************************************)
\* From the invocation to the owner read: the precondition checks throw
\* before the try block, so their error is not wrapped.
\* Mutant: the precondition checks stand inside the try block.
Begin_ChecksInsideTry(c, op, params) ==
  LET i   == [IdleInvocation EXCEPT !.op = op, !.params = params]
      pre == Preconditions(op, c)
  IN  IF pre # "ok"
        THEN Rejected(i, Wrapped(op, pre))
        ELSE Issue(i, ReadCall(c, "identityIsOwner",
                               <<params.namespace, params.list, AuthAddress(op, c)>>))

Begin(c, op, params) ==
  LET i   == [IdleInvocation EXCEPT !.op = op, !.params = params]
      pre == Preconditions(op, c)
  IN  IF pre # "ok"
        THEN Rejected(i, pre)
        ELSE Issue(i, ReadCall(c, "identityIsOwner",
                               <<params.namespace, params.list, AuthAddress(op, c)>>))

\* Mutant: a batch operation compares the lengths of its arrays first.
Authorized_ChecksLengths(c, i) ==
  IF i.op \in BatchOps /\ Len(i.params.keys) # Len(i.params.values)
    THEN Rejected(i, Wrapped(i.op, "keys and values must have the same length"))
  ELSE IF i.op \in SignedOps
    THEN Issue(i, ReadCall(c, "nonces", <<c.metaTransactionWalletClient.account>>))
  ELSE IF i.op = "addListDelegate" /\ BigIntThrows(i.params.delegateUntil)
    THEN Rejected(i, Wrapped(i.op, MsgBigInt))
  ELSE IssueWrite(i, WriteCall(c, WriteFunction(i.op),
                               WriteArgs(i.op, i.params, Undefined, Undefined),
                               WriteOptions(c)))

\* The owner check passed: the nonce read (signed) or the write call (direct).
Authorized(c, i) ==
  IF i.op \in SignedOps
    THEN Issue(i, ReadCall(c, "nonces", <<c.metaTransactionWalletClient.account>>))
  ELSE IF i.op = "addListDelegate" /\ BigIntThrows(i.params.delegateUntil)
    THEN Rejected(i, Wrapped(i.op, MsgBigInt))
  ELSE IssueWrite(i, WriteCall(c, WriteFunction(i.op),
                               WriteArgs(i.op, i.params, Undefined, Undefined),
                               WriteOptions(c)))

\* Mutant: the result of the owner read is not looked at.
AfterIsListOwner_Unchecked(c, i, failed, isOwner) ==
  IF failed THEN Rejected(i, Wrapped(i.op, MsgRpc)) ELSE Authorized(c, i)

\* Mutant: the signed variants read the nonce before they look at the result
\* of the owner read.
AfterIsListOwner_SignedUnchecked(c, i, failed, isOwner) ==
  IF failed THEN Rejected(i, Wrapped(i.op, MsgRpc))
  ELSE IF i.op \notin SignedOps /\ ~isOwner
    THEN Rejected(i, Wrapped(i.op, NotOwnerMessage(i.op)))
  ELSE Authorized(c, i)

\* `await this.isListOwner(...)` settled: the owner check, then the rest of
\* the try block up to its next external call.
AfterIsListOwner(c, i, failed, isOwner) ==
  IF failed THEN Rejected(i, Wrapped(i.op, MsgRpc))
  ELSE IF ~isOwner THEN Rejected(i, Wrapped(i.op, NotOwnerMessage(i.op)))
  ELSE Authorized(c, i)

\* Mutant: the nonce the instance starts from is signed, not the one just read.
AfterNonces_InitialNonce(c, i, failed, nonce) ==
  LET type == getSignedDataType(SignedTypeKey(i.op, i.params))
  IN  IF failed THEN Rejected(i, Wrapped(i.op, MsgRpc))
      ELSE IF type.threw THEN Rejected(i, Wrapped(i.op, type.error))
      ELSE IF c.metaTransactionWalletClient.chain = Undefined
        THEN Rejected(i, Wrapped(i.op, MsgDomainChain))
      ELSE Issue([i EXCEPT !.signerNonce = 0], ReadCall(c, "version", <<>>))

\* `await this.contract.read.nonces(...)` settled: schema, message, then
\* getEIP712Domain() up to its version read.
AfterNonces(c, i, failed, nonce) ==
  LET type == getSignedDataType(SignedTypeKey(i.op, i.params))
  IN  IF failed THEN Rejected(i, Wrapped(i.op, MsgRpc))
      ELSE IF type.threw THEN Rejected(i, Wrapped(i.op, type.error))
      ELSE IF c.metaTransactionWalletClient.chain = Undefined
        THEN Rejected(i, Wrapped(i.op, MsgDomainChain))
      ELSE Issue([i EXCEPT !.signerNonce = nonce], ReadCall(c, "version", <<>>))

\* Mutant: the ownership is looked up again before the signature is requested.
AfterVersion_RechecksOwner(c, i, failed, version) ==
  LET metaSigner == c.metaTransactionWalletClient.account
      type       == getSignedDataType(SignedTypeKey(i.op, i.params))
  IN  IF failed THEN Rejected(i, Wrapped(i.op, MsgRpc))
      ELSE IF ~IdentityIsOwner(registry, i.calls[1].args)
        THEN Rejected(i, Wrapped(i.op, NotOwnerMessage(i.op)))
      ELSE Issue(i, SignCall([account     |-> metaSigner,
                              domain      |-> EIP712Domain(c, version),
                              types       |-> [struct |-> type.struct, fields |-> type.fields],
                              primaryType |-> PrimaryType(i.op),
                              message     |-> Message(i.op, i.params, metaSigner, i.signerNonce)]))

\* `await this.contract.read.version()` settled: the domain, then the
\* signature request.
AfterVersion(c, i, failed, version) ==
  LET metaSigner == c.metaTransactionWalletClient.account
      type       == getSignedDataType(SignedTypeKey(i.op, i.params))
  IN  IF failed THEN Rejected(i, Wrapped(i.op, MsgRpc))
      ELSE Issue(i, SignCall([account     |-> metaSigner,
                              domain      |-> EIP712Domain(c, version),
                              types       |-> [struct |-> type.struct, fields |-> type.fields],
                              primaryType |-> PrimaryType(i.op),
                              message     |-> Message(i.op, i.params, metaSigner, i.signerNonce)]))

\* Mutant: the address of the relaying wallet is embedded as the signer.
AfterSignTypedData_RelayerAddress(c, i, failed, signature) ==
  IF failed THEN Rejected(i, Wrapped(i.op, MsgUserRejected))
  ELSE IssueWrite(i, WriteCall(c, WriteFunction(i.op),
                               WriteArgs(i.op, i.params, c.walletClient.account, signature),
                               WriteOptions(c)))

\* Mutant: a refused signature request is made again.
AfterSignTypedData_AsksAgain(c, i, failed, signature) ==
  IF failed THEN Issue(i, LastCall(i))
  ELSE IssueWrite(i, WriteCall(c, WriteFunction(i.op),
                               WriteArgs(i.op, i.params, c.metaTransactionWalletClient.account,
                                         signature),
                               WriteOptions(c)))

\* `await ...signTypedData(...)` settled: the write call.
AfterSignTypedData(c, i, failed, signature) ==
  IF failed THEN Rejected(i, Wrapped(i.op, MsgUserRejected))
  ELSE IssueWrite(i, WriteCall(c, WriteFunction(i.op),
                               WriteArgs(i.op, i.params, c.metaTransactionWalletClient.account,
                                         signature),
                               WriteOptions(c)))

\* Mutant: the branches of the operation call the write without returning its
\* promise, so the operation resolves with undefined.
AfterWrite_NoReturn(i, failed, message, hash) ==
  IF failed THEN Rejected(i, message) ELSE Resolved(i, Undefined)

\* Mutant: a rejected write is swallowed and the operation resolves.
AfterWrite_SwallowsRejection(i, failed, message, hash) ==
  IF failed THEN Resolved(i, Undefined) ELSE Resolved(i, hash)

\* The promise of the write call settled.  The operation returns that promise
\* from inside its try block without awaiting it (`return this.contract.write
\* ...`), so the invocation's promise adopts it: a rejection of the write never
\* passes through the catch block.
AfterWrite(i, failed, message, hash) ==
  IF failed THEN Rejected(i, message) ELSE Resolved(i, hash)

(***************************************************************************)
(* The delegate-eligible operations setHintDelegated and                   *)
(* setHintDelegatedSigned, which authorize through identityIsDelegate and  *)
(* throw the error classes of errors.ts                                    *)
(***************************************************************************)
DelegatedOps       == {"setHintDelegated", "setHintDelegatedSigned"}
DelegatedSignedOps == {"setHintDelegatedSigned"}

\* new ClientNotSetError("MetaTransactionWalletClient").message
MsgMetaClientNotSet == "MetaTransactionWalletClient must be set and properly configured."
\* new NotDelegateError(clientType).message
MsgWalletNotDelegate == "Provided WalletClient must be a delegate of the namespace."
MsgMetaNotDelegate   == "Provided MetaTransactionWalletClient must be a delegate of the namespace."
\* new NotOwnerError(clientType).message
NotOwnerErrorMessage(clientType) == "Provided " \o clientType \o " must be the owner of the namespace."

PreconditionsDelegated(op, c) ==
  LET meta   == c.metaTransactionWalletClient
      wallet == c.walletClient
  IN  IF op \in DelegatedSignedOps /\ (~meta.set \/ meta.account = Undefined)
        THEN MsgMetaClientNotSet
      ELSE IF wallet.chain = Undefined \/ wallet.account = Undefined THEN MsgWalletClient
      ELSE IF op \in DelegatedSignedOps /\ meta.chain # wallet.chain THEN MsgChainMismatch
      ELSE "ok"

DelegateAuthAddress(op, c) ==
  IF op \in DelegatedSignedOps THEN c.metaTransactionWalletClient.account
                               ELSE c.walletClient.account

NotDelegateMessage(op) ==
  IF op \in DelegatedSignedOps THEN MsgMetaNotDelegate ELSE MsgWalletNotDelegate

\* From the invocation to the delegate read.
BeginDelegated(c, op, params) ==
  LET i   == [IdleInvocation EXCEPT !.op = op, !.params = params]
      pre == PreconditionsDelegated(op, c)
  IN  IF pre # "ok"
        THEN Rejected(i, pre)
        ELSE Issue(i, ReadCall(c, "identityIsDelegate",
                               <<params.namespace, params.list, DelegateAuthAddress(op, c)>>))

\* Mutant: the delegate check throws the error of the owner check it was
\* copied from.
AfterIsListDelegate_OwnerError(c, i, failed, isDelegate) ==
  IF failed THEN Rejected(i, Wrapped(i.op, MsgRpc))
  ELSE IF ~isDelegate
    THEN Rejected(i, Wrapped(i.op, NotOwnerErrorMessage(IF i.op \in DelegatedSignedOps
                                                          THEN "MetaTransactionWalletClient"
                                                          ELSE "WalletClient")))
  ELSE IF i.op \in DelegatedSignedOps
    THEN Issue(i, ReadCall(c, "nonces", <<c.metaTransactionWalletClient.account>>))
  ELSE IssueWrite(i, WriteCall(c, WriteFunction(i.op),
                               WriteArgs(i.op, i.params, Undefined, Undefined),
                               WriteOptions(c)))

\* `await this.isListDelegate(...)` settled: the delegate check, then the
\* nonce read (signed) or the write call (direct).
AfterIsListDelegate(c, i, failed, isDelegate) ==
  IF failed THEN Rejected(i, Wrapped(i.op, MsgRpc))
  ELSE IF ~isDelegate THEN Rejected(i, Wrapped(i.op, NotDelegateMessage(i.op)))
  ELSE IF i.op \in DelegatedSignedOps
    THEN Issue(i, ReadCall(c, "nonces", <<c.metaTransactionWalletClient.account>>))
  ELSE IssueWrite(i, WriteCall(c, WriteFunction(i.op),
                               WriteArgs(i.op, i.params, Undefined, Undefined),
                               WriteOptions(c)))

\* getHint: the read call, whose promise the operation returns as it is (no
\* precondition, no try block).
\* Mutant: getHint asks for a wallet client, as the write operations do.
BeginGetHint_RequiresWallet(c, params) ==
  IF c.walletClient.chain = Undefined \/ c.walletClient.account = Undefined
    THEN Rejected([IdleInvocation EXCEPT !.op = "getHint", !.params = params], MsgWalletClient)
    ELSE Issue([IdleInvocation EXCEPT !.op = "getHint", !.params = params],
               ReadCall(c, "getHint", <<params.namespace, params.list, params.key>>))

BeginGetHint(c, params) ==
  Issue([IdleInvocation EXCEPT !.op = "getHint", !.params = params],
        ReadCall(c, "getHint", <<params.namespace, params.list, params.key>>))

\* The promise of the getHint read settled.
AfterGetHint(i, failed, message, value) ==
  IF failed THEN Rejected(i, message) ELSE Resolved(i, value)

(***************************************************************************)
(* Initial states                                                          *)
(***************************************************************************)
MaxInitNonce == 1

WalletClients ==
  {NoClient} \cup {Client(ch, a) : ch \in {Undefined, SEPOLIA}, a \in {Undefined, BOB}}
MetaTransactionWalletClients ==
  {NoClient} \cup {Client(ch, a) : ch \in {Undefined, SEPOLIA, OtherChain},
                                  a \in {Undefined, ALICE, BOB}}
ReadClient == Client(SEPOLIA, Undefined)

\* The configurations the type TrustedHintControllerConfig admits (exactly one
\* of walletClient and readClient), with an explicit registry address.
Configs ==
  {Config(IF w.set THEN NoClient ELSE ReadClient, w, m, RegistryAddress) :
     w \in WalletClients, m \in MetaTransactionWalletClients}

Registries ==
  [owner     : [ListIds -> Addresses],
   nonces    : {[a \in Addresses |-> n] : n \in 0..MaxInitNonce},
   hints     : {<<>>},
   metadata  : {<<>>},
   delegates : {<<>>},
   version   : {RegistryVersion}]

\* One invocation is made on the instance.
Init ==
  /\ procs = {1}
  /\ ctl \in {Constructor(cfg) : cfg \in Configs}
  /\ inv = [p \in {1, 2} |-> IdleInvocation]
  /\ registry \in Registries

(***************************************************************************)
(* Actions                                                                 *)
(***************************************************************************)
\* delegateUntil: number | bigint.  Integers below, inside and (as a bigint)
\* above the range of the registry's unsigned integer, and a number that is
\* no integer.
DelegateUntils ==
  {[kind |-> k, integral |-> TRUE, val |-> n] : k \in {"number", "bigint"}, n \in {-1, 0, 1}}
  \cup {[kind |-> "bigint", integral |-> TRUE, val |-> UintMax + 1],
        [kind |-> "number", integral |-> FALSE, val |-> 1]}

Procs == {1, 2}

\* The arguments the operations are invoked with.  Where two invocations are
\* made, they are drawn from narrower sets: batches of full length, in order
\* and reversed, with and without metadata.
Single == Cardinality(procs) = 1
MetadataInputs      == IF Single THEN Metadatas ELSE {None, Some("0xm1")}
BatchKeyInputs      == IF Single THEN BatchKeys ELSE {Prefix(KeyPool, MaxLen)}
BatchValueInputs    == IF Single THEN BatchValues
                       ELSE {Prefix(ValuePool, MaxLen), Reverse(Prefix(ValuePool, MaxLen))}
BatchMetadataInputs == IF Single THEN BatchMetadatas ELSE {None, Some(Prefix(MetaPool, MaxLen))}
DelegateUntilInputs ==
  IF Single THEN DelegateUntils
  ELSE {[kind |-> "number", integral |-> TRUE, val |-> 0],
        [kind |-> "bigint", integral |-> TRUE, val |-> 1],
        [kind |-> "number", integral |-> FALSE, val |-> 1]}

\* Invocations are numbered in the order in which they are made.
Invocable(p) ==
  /\ p \in procs
  /\ ~ctl.threw
  /\ inv[p].pc = "idle"
  /\ \A q \in procs : q < p => inv[q].pc # "idle"

setHint(p) ==
  /\ Invocable(p)
  /\ \E ns \in Namespaces, l \in Lists, k \in Keys, v \in Values, md \in MetadataInputs :
       inv' = [inv EXCEPT ![p] =
                 Begin(ctl, "setHint",
                       [namespace |-> ns, list |-> l, key |-> k, value |-> v, metadata |-> md])]
  /\ UNCHANGED <<ctl, registry, procs>>

\* Mutant: the operation binds the contract of the instance to the signing
\* wallet.
setHintSigned_RebindsContract(p) ==
  /\ Invocable(p)
  /\ \E ns \in Namespaces, l \in Lists, k \in Keys, v \in Values, md \in MetadataInputs :
       inv' = [inv EXCEPT ![p] =
                 Begin(ctl, "setHintSigned",
                       [namespace |-> ns, list |-> l, key |-> k, value |-> v, metadata |-> md])]
  /\ ctl' = [ctl EXCEPT !.contract.client = ctl.metaTransactionWalletClient]
  /\ UNCHANGED <<registry, procs>>

setHintSigned(p) ==
  /\ Invocable(p)
  /\ \E ns \in Namespaces, l \in Lists, k \in Keys, v \in Values, md \in MetadataInputs :
       inv' = [inv EXCEPT ![p] =
                 Begin(ctl, "setHintSigned",
                       [namespace |-> ns, list |-> l, key |-> k, value |-> v, metadata |-> md])]
  /\ UNCHANGED <<ctl, registry, procs>>

setHints(p) ==
  /\ Invocable(p)
  /\ \E ns \in Namespaces, l \in Lists, ks \in BatchKeyInputs, vs \in BatchValueInputs,
        md \in BatchMetadataInputs :
       inv' = [inv EXCEPT ![p] =
                 Begin(ctl, "setHints",
                       [namespace |-> ns, list |-> l, keys |-> ks, values |-> vs,
                        metadata |-> md])]
  /\ UNCHANGED <<ctl, registry, procs>>

setHintsSigned(p) ==
  /\ Invocable(p)
  /\ \E ns \in Namespaces, l \in Lists, ks \in BatchKeyInputs, vs \in BatchValueInputs,
        md \in BatchMetadataInputs :
       inv' = [inv EXCEPT ![p] =
                 Begin(ctl, "setHintsSigned",
                       [namespace |-> ns, list |-> l, keys |-> ks, values |-> vs,
                        metadata |-> md])]
  /\ UNCHANGED <<ctl, registry, procs>>

addListDelegate(p) ==
  /\ Invocable(p)
  /\ \E ns \in Namespaces, l \in Lists, d \in Addresses, until \in DelegateUntilInputs :
       inv' = [inv EXCEPT ![p] =
                 Begin(ctl, "addListDelegate",
                       [namespace |-> ns, list |-> l, delegate |-> d, delegateUntil |-> until])]
  /\ UNCHANGED <<ctl, registry, procs>>

\* The keys a hint is read under: those the batch operations may write.
ReadKeys == {KeyPool[n] : n \in 1..MaxLen}

getHint(p) ==
  /\ Invocable(p)
  /\ \E ns \in Namespaces, l \in Lists, k \in ReadKeys :
       inv' = [inv EXCEPT ![p] =
                 BeginGetHint(ctl, [namespace |-> ns, list |-> l, key |-> k])]
  /\ UNCHANGED <<ctl, registry, procs>>

\* The getHint read of invocation p settles.
GetHintSettles(p) ==
  /\ inv[p].pc = "getHint"
  /\ LET value == RegistryGetHint(registry, LastCall(inv[p]).args)
     IN  \/ inv' = [inv EXCEPT ![p] = AfterGetHint(Fulfilled(inv[p], value), FALSE, Undefined, value)]
         \/ inv' = [inv EXCEPT ![p] = AfterGetHint(Failed(inv[p], MsgRpc), TRUE, MsgRpc, Undefined)]
  /\ UNCHANGED <<ctl, registry, procs>>

\* The owner read of invocation p settles.
IdentityIsOwnerSettles(p) ==
  /\ inv[p].pc = "identityIsOwner"
  /\ LET isOwner == IdentityIsOwner(registry, LastCall(inv[p]).args)
     IN  \/ inv' = [inv EXCEPT ![p] =
                      AfterIsListOwner(ctl, Fulfilled(inv[p], isOwner), FALSE, isOwner)]
         \/ inv' = [inv EXCEPT ![p] =
                      AfterIsListOwner(ctl, Failed(inv[p], MsgRpc), TRUE, FALSE)]
  /\ UNCHANGED <<ctl, registry, procs>>

\* The nonce read of invocation p settles.
NoncesSettles(p) ==
  /\ inv[p].pc = "nonces"
  /\ LET nonce == registry.nonces[LastCall(inv[p]).args[1]]
     IN  \/ inv' = [inv EXCEPT ![p] = AfterNonces(ctl, Fulfilled(inv[p], nonce), FALSE, nonce)]
         \/ inv' = [inv EXCEPT ![p] = AfterNonces(ctl, Failed(inv[p], MsgRpc), TRUE, 0)]
  /\ UNCHANGED <<ctl, registry, procs>>

\* The version read of invocation p settles.
VersionSettles(p) ==
  /\ inv[p].pc = "version"
  /\ \/ inv' = [inv EXCEPT ![p] =
                  AfterVersion(ctl, Fulfilled(inv[p], registry.version), FALSE, registry.version)]
     \/ inv' = [inv EXCEPT ![p] = AfterVersion(ctl, Failed(inv[p], MsgRpc), TRUE, Undefined)]
  /\ UNCHANGED <<ctl, registry, procs>>

\* The signature request of invocation p settles: the wallet signs, or its
\* user refuses.
SignTypedDataSettles(p) ==
  /\ inv[p].pc = "signTypedData"
  /\ LET signature == Sign(LastCall(inv[p]).args)
     IN  \/ inv' = [inv EXCEPT ![p] =
                      AfterSignTypedData(ctl, Fulfilled(inv[p], signature), FALSE, signature)]
         \/ inv' = [inv EXCEPT ![p] =
                      AfterSignTypedData(ctl, Failed(inv[p], MsgUserRejected), TRUE, Undefined)]
  /\ UNCHANGED <<ctl, registry, procs>>

\* The write call of invocation p settles: the registry executes the
\* transaction, or the transaction reverts, or the transport fails.
WriteSettles(p) ==
  /\ inv[p].pc = "write"
  /\ LET call == LastCall(inv[p])
     IN  \/ /\ RegistryAccepts(registry, call)
            /\ \E hash \in TxHashes :
                 inv' = [inv EXCEPT ![p] = AfterWrite(Fulfilled(inv[p], hash), FALSE, Undefined, hash)]
            /\ registry' = RegistryApply(registry, call)
         \/ /\ ~RegistryAccepts(registry, call)
            /\ inv' = [inv EXCEPT ![p] =
                         AfterWrite(Failed(inv[p], MsgReverted), TRUE, MsgReverted, Undefined)]
            /\ UNCHANGED registry
         \/ /\ inv' = [inv EXCEPT ![p] =
                         AfterWrite(Failed(inv[p], MsgRpc), TRUE, MsgRpc, Undefined)]
            /\ UNCHANGED registry
  /\ UNCHANGED <<ctl, procs>>

\* Somebody else's transaction transfers the ownership of a list.
ListOwnerChanges ==
  /\ \E id \in ListIds, a \in Addresses :
       /\ a # registry.owner[id]
       /\ registry' = [registry EXCEPT !.owner[id] = a]
  /\ UNCHANGED <<ctl, inv, procs>>

\* The registry (a proxy) is upgraded to an implementation that reports
\* another version.
RegistryUpgrades ==
  /\ registry.version = RegistryVersion
  /\ registry' = [registry EXCEPT !.version = UpgradedVersion]
  /\ UNCHANGED <<ctl, inv, procs>>

Next ==
  \/ \E p \in Procs : getHint(p)
  \/ \E p \in Procs : setHint(p)
  \/ \E p \in Procs : setHintSigned(p)
  \/ \E p \in Procs : setHints(p)
  \/ \E p \in Procs : setHintsSigned(p)
  \/ \E p \in Procs : addListDelegate(p)
  \/ \E p \in Procs : IdentityIsOwnerSettles(p)
  \/ \E p \in Procs : NoncesSettles(p)
  \/ \E p \in Procs : VersionSettles(p)
  \/ \E p \in Procs : SignTypedDataSettles(p)
  \/ \E p \in Procs : GetHintSettles(p)
  \/ \E p \in Procs : WriteSettles(p)
  \/ ListOwnerChanges
  \/ RegistryUpgrades

Spec == Init /\ [][Next]_vars

\* Two invocations are made on one instance that has a relaying wallet (BOB)
\* and a signing wallet (ALICE) on the same chain; the second may start while
\* the first is suspended on an external call, or after it has settled.
InitConcurrent ==
  /\ procs = {1, 2}
  /\ ctl = Constructor(Config(NoClient, Client(SEPOLIA, BOB), Client(SEPOLIA, ALICE),
                              RegistryAddress))
  /\ inv = [p \in {1, 2} |-> IdleInvocation]
  /\ registry \in Registries

SpecConcurrent == InitConcurrent /\ [][Next]_vars

\* The constructor is handed any configuration object a caller can build,
\* whether or not the type TrustedHintControllerConfig admits it: no client at
\* all, both clients, a registry address or none (then the deployment of the
\* client's chain is looked up).
ReadClients == {NoClient, Client(SEPOLIA, Undefined), Client(OtherChain, Undefined)}

AnyConfigs ==
  {Config(r, w, m, a) :
     r \in ReadClients,
     w \in {NoClient, Client(SEPOLIA, BOB), Client(Undefined, BOB)},
     m \in {NoClient, Client(SEPOLIA, ALICE)},
     a \in {RegistryAddress, CustomAddress, Undefined}}

\* (registryAddress is not a field of the instance: the address the
\* configuration named is kept beside it for the properties of construction.)
InitConstruction ==
  /\ procs = {1}
  /\ \E cfg \in AnyConfigs : ctl = Constructor(cfg) @@ [registryAddress |-> cfg.registryAddress]
  /\ inv = [p \in {1, 2} |-> IdleInvocation]
  /\ registry \in Registries

SpecConstruction == InitConstruction /\ [][Next]_vars

\* Two invocations are made on one instance, which is read-only or has a
\* relaying and a signing wallet; the registry holds a hint already or none.
StoredHints == {<<>>, [slot \in {<<ALICE, "list", "k1">>} |-> "v3"]}

InitReads ==
  /\ procs = {1, 2}
  /\ ctl \in {Constructor(Config(ReadClient, NoClient, NoClient, RegistryAddress)),
              Constructor(Config(NoClient, Client(SEPOLIA, BOB), Client(SEPOLIA, ALICE),
                                 RegistryAddress))}
  /\ inv = [p \in {1, 2} |-> IdleInvocation]
  /\ \E h \in StoredHints :
       registry = [owner |-> [id \in ListIds |-> BOB], nonces |-> [a \in Addresses |-> 0],
                   hints |-> h, metadata |-> <<>>, delegates |-> <<>>,
                   version |-> RegistryVersion]

SpecReads == InitReads /\ [][Next]_vars

(***************************************************************************)
(* The controller with its delegate-eligible operations                    *)
(***************************************************************************)
setHintDelegated(p) ==
  /\ Invocable(p)
  /\ \E ns \in Namespaces, l \in Lists, k \in Keys, v \in Values, md \in MetadataInputs :
       inv' = [inv EXCEPT ![p] =
                 BeginDelegated(ctl, "setHintDelegated",
                                [namespace |-> ns, list |-> l, key |-> k, value |-> v,
                                 metadata |-> md])]
  /\ UNCHANGED <<ctl, registry, procs>>

setHintDelegatedSigned(p) ==
  /\ Invocable(p)
  /\ \E ns \in Namespaces, l \in Lists, k \in Keys, v \in Values, md \in MetadataInputs :
       inv' = [inv EXCEPT ![p] =
                 BeginDelegated(ctl, "setHintDelegatedSigned",
                                [namespace |-> ns, list |-> l, key |-> k, value |-> v,
                                 metadata |-> md])]
  /\ UNCHANGED <<ctl, registry, procs>>

\* The delegate read of invocation p settles.
IdentityIsDelegateSettles(p) ==
  /\ inv[p].pc = "identityIsDelegate"
  /\ LET isDelegate == IdentityIsDelegate(registry, LastCall(inv[p]).args)
     IN  \/ inv' = [inv EXCEPT ![p] =
                      AfterIsListDelegate(ctl, Fulfilled(inv[p], isDelegate), FALSE, isDelegate)]
         \/ inv' = [inv EXCEPT ![p] =
                      AfterIsListDelegate(ctl, Failed(inv[p], MsgRpc), TRUE, FALSE)]
  /\ UNCHANGED <<ctl, registry, procs>>

\* The owner of a list made one or both addresses delegates of it, until a
\* time past the registry's clock or not.
DelegateMaps ==
  {<<>>} \cup
  {[slot \in {<<ns, l, a>> : ns \in Namespaces, l \in Lists, a \in Addresses} |-> u[slot[3]]] :
     u \in [Addresses -> {0, 1}]}

InitDelegated ==
  /\ procs = {1}
  /\ \E m \in {NoClient, Client(SEPOLIA, ALICE), Client(SEPOLIA, Undefined),
                Client(OtherChain, ALICE)} :
       ctl = Constructor(Config(NoClient, Client(SEPOLIA, BOB), m, RegistryAddress))
  /\ inv = [p \in {1, 2} |-> IdleInvocation]
  /\ \E r \in Registries, d \in DelegateMaps : registry = [r EXCEPT !.delegates = d]

NextDelegated ==
  \/ Next
  \/ \E p \in Procs : setHintDelegated(p)
  \/ \E p \in Procs : setHintDelegatedSigned(p)
  \/ \E p \in Procs : IdentityIsDelegateSettles(p)

SpecDelegated == InitDelegated /\ [][NextDelegated]_vars


(***************************************************************************)
(* Properties                                                              *)
(***************************************************************************)
Started(i) == i.pc # "idle"

\* The calls invocation i has issued to a target / to a function.
CallsTo(i, target) == {k \in DOMAIN i.calls : i.calls[k].target = target}
CallsOf(i, fn)     == {k \in DOMAIN i.calls : i.calls[k].fn = fn}

\* The authorization read of invocation i has returned `result`.
OwnerReadReturned(i, result) ==
  /\ Len(i.returns) >= 1
  /\ i.calls[1].fn = "identityIsOwner"
  /\ i.returns[1].ok
  /\ i.returns[1].value = result

\* The value of a field of a signed message.
FieldValue(message, name) ==
  message[CHOOSE k \in DOMAIN message : message[k][1] = name][2]

Signer  == ctl.metaTransactionWalletClient
Relayer == ctl.walletClient

C2_SignedUnauthorizedStopsAtOnce ==
  \A p \in Procs :
    (inv[p].op \in SignedOps /\ OwnerReadReturned(inv[p], FALSE)) =>
      /\ inv[p].pc = "done"
      /\ Len(inv[p].calls) = 1
      /\ CallsOf(inv[p], "nonces") = {}
      /\ CallsOf(inv[p], "version") = {}
      /\ CallsOf(inv[p], "signTypedData") = {}
      /\ CallsTo(inv[p], "write") = {}

C2_Witness ==
  \E p \in Procs :
    /\ inv[p].op \in SignedOps
    /\ OwnerReadReturned(inv[p], FALSE)
    /\ inv[p].pc = "done"

\* The call invocation p awaited has been fulfilled in this step.
FulfilledInStep(p, fn) ==
  /\ inv[p].pc = fn
  /\ Len(inv'[p].returns) = Len(inv[p].returns) + 1
  /\ inv'[p].returns[Len(inv'[p].returns)].ok

\* C3: in every signed variant the owner read asks about the signer's address;
\* when the read settles, the invocation is rejected without a further call if
\* the signer does not own the list, and otherwise goes on, whatever role the
\* relayer holds, to the nonce read for the signer, and from there, as long as
\* the calls succeed, to the signature request and to the write call without
\* another role check.
C3_SignedRoleCheckIsTheSigners ==
  [][\A p \in Procs :
       inv[p].op \in SignedOps =>
         /\ FulfilledInStep(p, "identityIsOwner") =>
              LET signerIsOwner ==
                    registry.owner[<<inv[p].params.namespace, inv[p].params.list>>]
                      = Signer.account
              IN  /\ LastCall(inv[p]).args[3] = Signer.account
                  /\ signerIsOwner =>
                       /\ inv'[p].pc = "nonces"
                       /\ LastCall(inv'[p]).args = <<Signer.account>>
                  /\ ~signerIsOwner =>
                       /\ inv'[p].status = "rejected"
                       /\ inv'[p].calls = inv[p].calls
         /\ FulfilledInStep(p, "nonces") => inv'[p].pc = "version"
         /\ FulfilledInStep(p, "version") => inv'[p].pc = "signTypedData"
         /\ FulfilledInStep(p, "signTypedData") => inv'[p].pc = "write"
         /\ CallsOf(inv'[p], "identityIsOwner") \subseteq {1}
     ]_vars

\* A signed write went through although the relayer did not own the list.
C3_Witness ==
  \E p \in Procs :
    /\ inv[p].op \in SignedOps
    /\ inv[p].status = "resolved"
    /\ Relayer.account # Signer.account
    /\ OwnerReadReturned(inv[p], TRUE)

\* C4: every signature request is made for the signer's account and its message
\* names the signer's address; every signed write carries the signer's address
\* as the embedded signer and is bound to the relayer's chain and account; the
\* embedded address is the relayer's only if signer and relayer coincide.
C4_EmbeddedSignerIsTheSigner ==
  \A p \in Procs : \A k \in DOMAIN inv[p].calls :
    LET call == inv[p].calls[k]
    IN  /\ call.fn = "signTypedData" =>
             /\ call.args.account = Signer.account
             /\ FieldValue(call.args.message, "signer") = Signer.account
        /\ (call.target = "write" /\ inv[p].op \in SignedOps) =>
             /\ call.args[Len(call.args) - 1] = Signer.account
             /\ call.opts = [chain |-> Relayer.chain, account |-> Relayer.account]
             /\ Signer.account # Relayer.account =>
                  call.args[Len(call.args) - 1] # Relayer.account

C4_Witness ==
  \E p \in Procs :
    /\ inv[p].op \in SignedOps
    /\ CallsTo(inv[p], "write") # {}
    /\ Signer.account # Relayer.account


\* The error kinds of the specification, by the messages the controller
\* throws for them.
ClientMisconfigured ==
  { "WalletClient must have a chain and account set.",
    "Provided WalletClient and MetaTransactionWalletClient must be on the same chain." }
ClientNotSet ==
  "metaTransactionWalletClient must be set when creating a TrustedHintController instance"

\* The relaying wallet is missing, or lacks a chain or an account.
RelayerUnusable == ~Relayer.set \/ Relayer.chain = Undefined \/ Relayer.account = Undefined
SignerUnusable  == ~Signer.set \/ Signer.account = Undefined

\* Signer and relayer are both bound to a chain, and to different ones.
ChainsDiffer ==
  /\ Signer.set /\ Signer.chain # Undefined
  /\ Relayer.set /\ Relayer.chain # Undefined
  /\ Signer.chain # Relayer.chain

ChainIdsUnequal == Signer.set /\ Signer.chain # Relayer.chain

FailedTo(op) ==
  CASE op = "setHint"         -> "Failed to set hint: "
    [] op = "setHintSigned"   -> "Failed to set hint signed: "
    [] op = "setHints"        -> "Failed to set hints: "
    [] op = "setHintsSigned"  -> "Failed to set hints signed: "
    [] op = "addListDelegate" -> "Failed to add list delegate: "

\* The write call of invocation i was rejected with `message`.
WriteRejectedWith(i, message) ==
  \E k \in DOMAIN i.returns :
    /\ i.calls[k].target = "write"
    /\ ~i.returns[k].ok
    /\ i.returns[k].value = message

\* C6: when the registry write call rejects, the operation rejects with the
\* operation-specific error that embeds the cause message, never with the raw
\* error of the write.
C6_WriteFailureIsWrapped ==
  \A p \in Procs : \A cause \in {MsgReverted, MsgRpc} :
    WriteRejectedWith(inv[p], cause) =>
      /\ inv[p].status = "rejected"
      /\ inv[p].value = FailedTo(inv[p].op) \o cause
      /\ inv[p].value # cause

\* C7: when the authorization check fails, the rejection message is the
\* prefix of the operation followed by the cause, which names WalletClient for
\* a direct and MetaTransactionWalletClient for a signed operation.
C7_UnauthorizedMessage ==
  \A p \in Procs :
    OwnerReadReturned(inv[p], FALSE) =>
      /\ inv[p].status = "rejected"
      /\ inv[p].value =
           FailedTo(inv[p].op) \o
             (IF inv[p].op \in {"setHintSigned", "setHintsSigned"}
                THEN "Provided MetaTransactionWalletClient must be the owner of the namespace."
                ELSE "Provided WalletClient must be the owner of the namespace.")

C7_Witness ==
  \E p \in Procs :
    /\ OwnerReadReturned(inv[p], FALSE)
    /\ inv[p].op = "setHints"
    /\ inv[p].value = "Failed to set hints: Provided WalletClient must be the owner of the namespace."

\* C8 as stated: without a usable relaying wallet every write-family operation
\* rejects with the wallet misconfiguration error and issues no external call.
C8_EveryOperationReportsTheWallet ==
  \A p \in Procs :
    (inv[p].op \in Ops /\ Started(inv[p]) /\ RelayerUnusable) =>
      /\ inv[p].status = "rejected"
      /\ inv[p].value = "WalletClient must have a chain and account set."
      /\ inv[p].calls = <<>>

\* C8, amended: without a usable relaying wallet every write-family operation
\* rejects without issuing any external call; the error is the wallet
\* misconfiguration error, except for a signed operation whose signer is
\* missing or has no account, which rejects with the signer-not-set error.
C8_NoWalletNoCall ==
  \A p \in Procs :
    (inv[p].op \in Ops /\ Started(inv[p]) /\ RelayerUnusable) =>
      /\ inv[p].pc = "done"
      /\ inv[p].status = "rejected"
      /\ inv[p].calls = <<>>
      /\ inv[p].value =
           IF inv[p].op \in SignedOps /\ SignerUnusable
             THEN ClientNotSet
             ELSE "WalletClient must have a chain and account set."

C8_Witness ==
  \E p \in Procs :
    /\ RelayerUnusable /\ ~SignerUnusable
    /\ inv[p].op \in SignedOps
    /\ inv[p].value = "WalletClient must have a chain and account set."

\* C9: a signed operation on a controller constructed without a
\* metaTransactionWalletClient rejects with the signer-not-set error and issues
\* no external call.
C9_NoSignerNoCall ==
  \A p \in Procs :
    (inv[p].op \in SignedOps /\ Started(inv[p]) /\ ~Signer.set) =>
      /\ inv[p].pc = "done"
      /\ inv[p].status = "rejected"
      /\ inv[p].value = ClientNotSet
      /\ inv[p].calls = <<>>

C9_Witness ==
  \E p \in Procs :
    /\ inv[p].op \in SignedOps
    /\ ~Signer.set
    /\ RelayerUnusable
    /\ inv[p].status = "rejected"

\* The base fields of an operation, in the order of its parameters.
BaseFields(op, params) ==
  CASE op \in {"setHint", "setHintSigned"} ->
         <<params.namespace, params.list, params.key, params.value>>
    [] op \in {"setHints", "setHintsSigned"} ->
         <<params.namespace, params.list, params.keys, params.values>>
    [] op = "addListDelegate" ->
         <<params.namespace, params.list, params.delegate, params.delegateUntil.val>>

MetadataSupplied(op, params) == op # "addListDelegate" /\ params.metadata.some

\* C10: the arguments of every submitted write are the base fields in order,
\* then the metadata if and only if it was supplied, then, for the signed
\* variants, the signer's address and the signature the wallet returned.
C10_WriteArguments ==
  \A p \in Procs : \A k \in CallsTo(inv[p], "write") :
    LET i    == inv[p]
        args == i.calls[k].args
        base == BaseFields(i.op, i.params)
        md   == IF MetadataSupplied(i.op, i.params) THEN <<i.params.metadata.val>> ELSE <<>>
        tail == IF i.op \in {"setHintSigned", "setHintsSigned"}
                  THEN <<Signer.account, i.returns[k - 1].value>>
                  ELSE <<>>
    IN  /\ Len(args) = Len(base) + Len(md) + Len(tail)
        /\ args = base \o md \o tail
        /\ i.op \in {"setHintSigned", "setHintsSigned"} =>
             /\ i.calls[k - 1].fn = "signTypedData"
             /\ i.returns[k - 1].ok

C10_Witness ==
  \E p \in Procs :
    /\ inv[p].op = "setHintsSigned"
    /\ inv[p].params.metadata.some
    /\ CallsTo(inv[p], "write") # {}
    /\ Len(LastCall(inv[p]).args) = 7

\* C11: a write-family operation that resolves has issued exactly one registry
\* write call, as its last call, and resolves with the transaction hash that
\* call returned, unchanged; no invocation resolves without a write call, and
\* none issues a second one.
C11_ReturnsTheHandleOfItsWrite ==
  \A p \in Procs :
    inv[p].op \in Ops =>
      /\ Cardinality(CallsTo(inv[p], "write")) <= 1
      /\ inv[p].status = "resolved" =>
           /\ CallsTo(inv[p], "write") = {Len(inv[p].calls)}
           /\ Len(inv[p].returns) = Len(inv[p].calls)
           /\ inv[p].returns[Len(inv[p].returns)].ok
           /\ inv[p].value = inv[p].returns[Len(inv[p].returns)].value
           /\ inv[p].value \in TxHashes

C11_Witness ==
  \E p \in Procs :
    /\ inv[p].op = "setHint"
    /\ inv[p].status = "resolved"
    /\ inv[p].value = "0xtx2"
    /\ LastCall(inv[p]).target = "write"

\* The registry executed the write of invocation i.
WriteApplied(i) ==
  \E k \in DOMAIN i.returns : i.calls[k].target = "write" /\ i.returns[k].ok

\* Invocation i reads the hint of slot (ns, list, key).
ReadsSlot(i, ns, list, key) ==
  /\ i.op = "getHint"
  /\ i.params.namespace = ns /\ i.params.list = list /\ i.params.key = key

\* C12: once the registry has executed the write of an authorized
\* setHint(ns, list, key, value[, metadata]) and no other write, a getHint(ns,
\* list, key) whose read returns resolves with value, and the registry's
\* metadata read for (ns, list, key, value) returns the metadata that was
\* supplied.
C12_SetHintGetHintRoundTrip ==
  [][\A p \in Procs : \A q \in Procs \ {p} :
       (inv[p].op = "setHint" /\ WriteApplied(inv[p]) /\ ~WriteApplied(inv[q])) =>
         LET a == inv[p].params
         IN  /\ (ReadsSlot(inv[q], a.namespace, a.list, a.key) /\ FulfilledInStep(q, "getHint")) =>
                  /\ inv'[q].status = "resolved"
                  /\ inv'[q].value = a.value
             /\ a.metadata.some =>
                  RegistryGetMetadata(registry, <<a.namespace, a.list, a.key, a.value>>)
                    = a.metadata.val
             /\ RegistryGetHint(registry, <<a.namespace, a.list, a.key>>) = a.value
    ]_vars

C12_Witness ==
  \E p \in Procs : \E q \in Procs \ {p} :
    /\ inv[p].op = "setHint" /\ inv[p].status = "resolved"
    /\ inv[p].params.metadata.some
    /\ inv[q].op = "getHint" /\ inv[q].status = "resolved"
    /\ inv[q].params.key = inv[p].params.key
    /\ inv[q].value = inv[p].params.value
    /\ RegistryGetMetadata(registry, <<inv[p].params.namespace, inv[p].params.list,
                                       inv[p].params.key, inv[p].params.value>>) = "0xm1"

\* The arrays of a batch invocation are passed on as they were supplied: to
\* the write call and, in the signed variant, into the signed message.
BatchArraysPassedOn(i) ==
  \A k \in DOMAIN i.calls :
    LET call == i.calls[k]
    IN  /\ call.target = "write" =>
             /\ call.args[3] = i.params.keys
             /\ call.args[4] = i.params.values
             /\ i.params.metadata.some => call.args[5] = i.params.metadata.val
        /\ call.fn = "signTypedData" =>
             /\ FieldValue(call.args.message, "keys") = i.params.keys
             /\ FieldValue(call.args.message, "values") = i.params.values
             /\ i.params.metadata.some =>
                  FieldValue(call.args.message, "metadata") = i.params.metadata.val

MetadataKinds ==
  {"SetHintSigned", "SetHintsSigned", "SetHintDelegatedSigned", "SetHintsDelegatedSigned"}
BatchKinds == {"SetHintsSigned", "SetHintsDelegatedSigned"}

\* The positions of the fields of a schema that carry a name.
FieldsNamed(fields, name) == {k \in DOMAIN fields : fields[k][1] = name}

\* A sequence without its k-th element.
Without(seq, k) == SubSeq(seq, 1, k - 1) \o SubSeq(seq, k + 1, Len(seq))

SchemaPairAgrees(kind) ==
  LET plain == getSignedDataType(kind)
      meta  == getSignedDataType(kind \o "Metadata")
  IN  /\ ~plain.threw /\ ~meta.threw
      /\ meta.struct = plain.struct
      /\ plain.struct = kind
      /\ FieldsNamed(plain.fields, "metadata") = {}
      /\ Cardinality(FieldsNamed(meta.fields, "metadata")) = 1
      /\ Len(meta.fields) = Len(plain.fields) + 1
      /\ \A k \in FieldsNamed(meta.fields, "metadata") :
           /\ meta.fields[k][2] = (IF kind \in BatchKinds THEN "bytes[]" ELSE "bytes")
           /\ k > 1 /\ k < Len(meta.fields)
           /\ meta.fields[k - 1][1] = (IF kind \in BatchKinds THEN "values" ELSE "value")
           /\ meta.fields[k + 1][1] = "signer"
           /\ Without(meta.fields, k) = plain.fields

\* C14: for SetHintSigned, SetHintsSigned, SetHintDelegatedSigned and
\* SetHintsDelegatedSigned the schema with metadata has the struct name of the
\* schema without, and is that schema with exactly one more field, metadata
\* (bytes for single, bytes[] for batch), right after value/values and right
\* before signer; the schema without metadata has no metadata field; and the
\* schema of every signature request has the metadata field exactly when
\* metadata was supplied.
C14_MetadataSchemaIsPlainPlusOneField ==
  /\ \A kind \in MetadataKinds : SchemaPairAgrees(kind)
  /\ \A p \in Procs : \A k \in CallsOf(inv[p], "signTypedData") :
       LET types == inv[p].calls[k].args.types
           kind  == IF inv[p].op = "setHintSigned" THEN "SetHintSigned" ELSE "SetHintsSigned"
       IN  /\ types.struct = kind
           /\ types.fields = getSignedDataType(IF inv[p].params.metadata.some
                                                 THEN kind \o "Metadata" ELSE kind).fields
           /\ (FieldsNamed(types.fields, "metadata") # {}) <=> inv[p].params.metadata.some

C14_Witness ==
  \E p \in Procs : \E k \in CallsOf(inv[p], "signTypedData") :
    /\ inv[p].op = "setHintsSigned"
    /\ inv[p].params.metadata.some
    /\ inv[p].calls[k].args.types.fields[5] = <<"metadata", "bytes[]">>
    /\ inv[p].calls[k].args.types.fields[6] = <<"signer", "address">>

\* C15: in a signed invocation the nonce read is issued after the owner read
\* has returned true, and the signTypedData request is the very next external
\* call after the nonce read.
C15_NonceReadImmediatelyBeforeSigning ==
  \A p \in Procs : \A k \in CallsOf(inv[p], "signTypedData") :
    /\ k > 2
    /\ inv[p].calls[k - 1].fn = "nonces"
    /\ OwnerReadReturned(inv[p], TRUE)

\* The nonce in the message invocation i asked the wallet to sign.
SignedNonce(i) ==
  FieldValue(i.calls[CHOOSE k \in CallsOf(i, "signTypedData") : TRUE].args.message, "nonce")

\* The nonce of every signature request of invocation i is the value that the
\* one nonce read of this invocation returned, made for the signer.
NonceIsThisInvocationsRead(i) ==
  /\ Cardinality(CallsOf(i, "nonces")) <= 1
  /\ \A k \in CallsOf(i, "signTypedData") :
       \E j \in CallsOf(i, "nonces") :
         /\ j < k
         /\ i.calls[j].args = <<Signer.account>>
         /\ i.returns[j].ok
         /\ FieldValue(i.calls[k].args.message, "nonce") = i.returns[j].value

\* C16: the nonce of every signed message is the value returned by a
\* nonces(signer) read of the same invocation; and when the registry has
\* executed the signed write of one invocation (and of no other), the nonce
\* read of the next signed invocation on the instance returns, and that
\* invocation signs, the nonce of the first plus one.
C16_NonceIsNeverCached ==
  [][\A p \in Procs :
       inv'[p].op \in SignedOps =>
         /\ NonceIsThisInvocationsRead(inv'[p])
         /\ \A q \in Procs \ {p} :
              (/\ inv[p].op \in SignedOps /\ inv[q].op \in SignedOps
               /\ WriteApplied(inv[p]) /\ ~WriteApplied(inv[q])
               /\ FulfilledInStep(q, "nonces")) =>
                /\ inv'[q].returns[Len(inv'[q].returns)].value = SignedNonce(inv[p]) + 1
                /\ inv'[q].signerNonce = SignedNonce(inv[p]) + 1
    ]_vars

\* Two signed invocations on the instance were both executed, the second over
\* the incremented nonce.
C16_Witness ==
  \E p \in Procs : \E q \in Procs \ {p} :
    /\ inv[p].op \in SignedOps /\ inv[p].status = "resolved"
    /\ inv[q].op \in SignedOps /\ inv[q].status = "resolved"
    /\ SignedNonce(inv[q]) = SignedNonce(inv[p]) + 1

\* The domain of the signature request invocation i made.
SignedDomain(i) == i.calls[CHOOSE k \in CallsOf(i, "signTypedData") : TRUE].args.domain

\* C17: the domain of every signature request is {name: 'TrustedHintRegistry',
\* version: what the version read that this invocation made just before
\* returned, chainId: the relaying wallet's chain id, verifyingContract: the
\* address of the controller's contract}; every signed invocation makes its own
\* version read, so the domain follows the registry's version from one
\* invocation to the next.
C17_DomainIsBuiltPerInvocation ==
  [][\A p \in Procs :
       /\ Cardinality(CallsOf(inv'[p], "version")) <= 1
       /\ \A k \in CallsOf(inv'[p], "signTypedData") :
            /\ k > 1
            /\ inv'[p].calls[k - 1].fn = "version"
            /\ inv'[p].calls[k - 1].address = ctl.contract.address
            /\ inv'[p].returns[k - 1].ok
            /\ inv'[p].calls[k].args.domain =
                 [name |-> "TrustedHintRegistry",
                  version |-> inv'[p].returns[k - 1].value,
                  chainId |-> Relayer.chain,
                  verifyingContract |-> ctl.contract.address]
       /\ FulfilledInStep(p, "version") =>
            /\ inv'[p].pc = "signTypedData"
            /\ LastCall(inv'[p]).args.domain.version = registry.version
    ]_vars

\* Two signed invocations on the instance signed under different versions.
C17_Witness ==
  \E p \in Procs : \E q \in Procs \ {p} :
    /\ CallsOf(inv[p], "signTypedData") # {}
    /\ CallsOf(inv[q], "signTypedData") # {}
    /\ SignedDomain(inv[p]).version = "1.0.0"
    /\ SignedDomain(inv[q]).version = "1.1.0"
    /\ SignedDomain(inv[q]).chainId = "11155111"

\* Invocation i has submitted a signed write.
SubmittedSigned(i) == i.op \in SignedOps /\ CallsTo(i, "write") # {}

\* The write call of invocation i has settled.
WriteSettled(i) == \E k \in DOMAIN i.returns : i.calls[k].target = "write"

\* C18: of two signed invocations on one instance that submitted signatures
\* over the same signer nonce, the registry executes at most one; once it has
\* executed one, the other, when its write settles, ends rejected, after the one
\* nonce read, the one signature request and the one write call that every
\* signed invocation makes (nothing is retried, nothing is serialized).
C18_SameNonceAtMostOneAccepted ==
  \A p \in Procs : \A q \in Procs \ {p} :
    (/\ SubmittedSigned(inv[p]) /\ SubmittedSigned(inv[q])
     /\ SignedNonce(inv[p]) = SignedNonce(inv[q])) =>
      /\ ~(WriteApplied(inv[p]) /\ WriteApplied(inv[q]))
      /\ (WriteApplied(inv[p]) /\ WriteSettled(inv[q])) =>
           /\ inv[q].pc = "done"
           /\ inv[q].status = "rejected"
           /\ Cardinality(CallsOf(inv[q], "nonces")) = 1
           /\ Cardinality(CallsOf(inv[q], "signTypedData")) = 1
           /\ Cardinality(CallsTo(inv[q], "write")) = 1

\* Both invocations read the same nonce, both submitted a signature over it,
\* one was executed and the other reverted.
C18_Witness ==
  \E p \in Procs : \E q \in Procs \ {p} :
    /\ SubmittedSigned(inv[p]) /\ SubmittedSigned(inv[q])
    /\ SignedNonce(inv[p]) = SignedNonce(inv[q])
    /\ inv[p].status = "resolved"
    /\ WriteRejectedWith(inv[q], MsgReverted)
    /\ inv[q].status = "rejected"

\* C19: constructing a controller with neither a readClient nor a walletClient
\* throws (whatever else the configuration holds), and no operation is ever
\* executed on what the constructor left behind: no invocation starts and no
\* external call is issued.
C19_NoClientNoController ==
  (~ctl.readClient.set /\ ~ctl.walletClient.set) =>
    /\ ctl.threw
    /\ ctl.error = "Either readClient or walletClient must be provided"
    /\ \A p \in Procs : inv[p].pc = "idle" /\ inv[p].calls = <<>>

\* Construction without a client has thrown although a signing wallet and a
\* registry address were configured, and the registry has moved on since.
C19_Witness ==
  /\ ~ctl.readClient.set /\ ~ctl.walletClient.set
  /\ ctl.metaTransactionWalletClient.set
  /\ ctl.registryAddress = RegistryAddress
  /\ ctl.threw
  /\ registry.version = UpgradedVersion

\* C20: a configuration that supplies both a readClient and a walletClient is
\* rejected at construction.
C20_BothClientsRejected ==
  (ctl.readClient.set /\ ctl.walletClient.set) => ctl.threw

\* The client the constructor hands to the lookup and to getContract.
ContractClient == IF ctl.readClient.set THEN ctl.readClient ELSE ctl.walletClient

\* C21: when a client is supplied and a registry address is configured, the
\* constructor succeeds with the contract bound to exactly that address,
\* whatever the lookup would have said for the client's chain (no chain, a
\* chain without deployment, a chain with another deployment); when no address
\* is configured the contract is bound to the proxy deployment of the client's
\* chain, and construction fails with the lookup's error when the client has
\* no chain or its chain has no proxy deployment.
C21_ExplicitAddressBeforeLookup ==
  (ctl.readClient.set \/ ctl.walletClient.set) =>
    /\ ctl.registryAddress # Undefined =>
         /\ ~ctl.threw
         /\ ctl.contract.address = ctl.registryAddress
    /\ ctl.registryAddress = Undefined =>
         /\ ContractClient.chain = "11155111" =>
              ~ctl.threw /\ ctl.contract.address = "0xREG"
         /\ ContractClient.chain = "undefined" =>
              ctl.threw /\ ctl.error = "No chainId found in provided readClient"
         /\ ContractClient.chain = "1" =>
              ctl.threw /\ ctl.error = "No deployment found for chainId 1 and type proxy"
         /\ ctl.threw => \A p \in Procs : inv[p].pc = "idle"
    /\ \A p \in Procs : \A k \in DOMAIN inv[p].calls :
         inv[p].calls[k].target \in {"read", "write"} =>
           inv[p].calls[k].address = ctl.contract.address

\* A controller whose client is on a chain without deployment was built for a
\* configured address and has sent a call to it.
C21_Witness ==
  /\ ctl.registryAddress = "0xC057"
  /\ ContractClient.chain = "1"
  /\ \E p \in Procs : inv[p].calls # <<>> /\ inv[p].calls[1].address = "0xC057"


(***************************************************************************)
(* C22: owner-only operations authorize through the identityIsOwner read   *)
(* and fail with the "must be the owner" cause; delegate-eligible          *)
(* operations authorize through the identityIsDelegate read and fail with  *)
(* the "must be a delegate" cause; no rejection carries both causes.       *)
(***************************************************************************)
OwnerCauses ==
  {"Provided WalletClient must be the owner of the namespace.",
   "Provided MetaTransactionWalletClient must be the owner of the namespace."}
DelegateCauses ==
  {"Provided WalletClient must be a delegate of the namespace.",
   "Provided MetaTransactionWalletClient must be a delegate of the namespace."}

\* The invocation's authorization read answered false.
AuthorizationDenied(i) ==
  /\ Len(i.returns) >= 1
  /\ i.returns[1].ok
  /\ i.returns[1].value = FALSE

C22_OwnerAndDelegateCausesDiffer ==
  /\ OwnerCauses \cap DelegateCauses = {}
  /\ \A p \in procs :
       LET i == inv[p]
       IN  /\ (i.op \in Ops /\ i.calls # <<>>) =>
                /\ i.calls[1].fn = "identityIsOwner"
                /\ CallsOf(i, "identityIsDelegate") = {}
                /\ AuthorizationDenied(i) =>
                     /\ i.status = "rejected"
                     /\ \E c \in OwnerCauses : i.value = ErrorPrefix(i.op) \o c
                     /\ \A c \in DelegateCauses, op \in Ops \cup DelegatedOps :
                          i.value # ErrorPrefix(op) \o c
           /\ (i.op \in DelegatedOps /\ i.calls # <<>>) =>
                /\ i.calls[1].fn = "identityIsDelegate"
                /\ CallsOf(i, "identityIsOwner") = {}
                /\ AuthorizationDenied(i) =>
                     /\ i.status = "rejected"
                     /\ \E c \in DelegateCauses : i.value = ErrorPrefix(i.op) \o c
                     /\ \A c \in OwnerCauses, op \in Ops \cup DelegatedOps :
                          i.value # ErrorPrefix(op) \o c

\* A delegated operation of a wallet that is the owner of the list but no
\* delegate of it was rejected with the delegate cause.
C22_Witness ==
  \E p \in procs :
    /\ inv[p].op = "setHintDelegated"
    /\ AuthorizationDenied(inv[p])
    /\ registry.owner[<<inv[p].params.namespace, inv[p].params.list>>] = ctl.walletClient.account
    /\ inv[p].status = "rejected"


(***************************************************************************)
(* C23: getHint is a pure read.  An invocation of getHint issues exactly   *)
(* one call, the registry's getHint read of its coordinates, on a          *)
(* read-only controller as on a writable one: no authorization read, no    *)
(* nonce read, no signature request, no write, and no rejection other than *)
(* that of the read itself.  Two getHint invocations with the same         *)
(* coordinates, with no write executed by the registry in between, resolve *)
(* with the same value.                                                    *)
(***************************************************************************)
C23_GetHintIsAPureRead ==
  \A p \in procs :
    LET i == inv[p]
    IN  i.op = "getHint" =>
          /\ Len(i.calls) = 1
          /\ i.calls[1].target = "read"
          /\ i.calls[1].fn = "getHint"
          /\ i.calls[1].args = <<i.params.namespace, i.params.list, i.params.key>>
          /\ i.status = "rejected" => (Len(i.returns) = 1 /\ ~i.returns[1].ok)
          /\ \A q \in procs \ {p} :
               ( /\ inv[q].op = "getHint"
                 /\ inv[q].params = i.params
                 /\ i.status = "resolved" /\ inv[q].status = "resolved" )
               => inv[q].value = i.value

\* A read-only controller answered two reads of a stored hint.
C23_Witness ==
  /\ ~ctl.walletClient.set
  /\ \A p \in {1, 2} :
       /\ inv[p].op = "getHint" /\ inv[p].status = "resolved"
       /\ inv[p].params.key = "k1"
       /\ inv[p].value = "v3"


(***************************************************************************)
(* C24                                                                     *)
(***************************************************************************)
\* The causes of a precondition failure: relayer without chain or account,
\* signer missing, chains mismatched.
PreconditionCauses == ClientMisconfigured \cup {ClientNotSet}

\* Invocation i failed a precondition: it was rejected before any call.
PreconditionFailed(i) == i.op \in Ops /\ i.status = "rejected" /\ i.calls = <<>>

\* C24 as stated: a precondition failure is wrapped into the
\* operation-specific error, which names the action and embeds the cause.
C24_PreconditionFailuresAreWrapped ==
  \A p \in Procs :
    PreconditionFailed(inv[p]) =>
      \E cause \in PreconditionCauses : inv[p].value = FailedTo(inv[p].op) \o cause

\* C24, amended: a precondition failure reaches the caller as the bare cause,
\* without the text of the operation-specific error, while the failures of the
\* steps between the precondition checks and the write call (authorization
\* read, owner check, nonce and version read, signature request, argument
\* conversion) carry that text in front of their cause.
C24_PreconditionFailuresAreBare ==
  \A p \in Procs :
    LET i == inv[p]
    IN  /\ PreconditionFailed(i) =>
             /\ i.value \in PreconditionCauses
             /\ \A op \in Ops, cause \in PreconditionCauses : i.value # FailedTo(op) \o cause
        /\ ( /\ i.op \in Ops /\ i.status = "rejected" /\ i.calls # <<>>
             /\ LastCall(i).target # "write" ) =>
             \E cause \in {MsgRpc, MsgUserRejected, MsgBigInt, MsgDomainChain,
                           "Provided WalletClient must be the owner of the namespace.",
                           "Provided MetaTransactionWalletClient must be the owner of the namespace."} :
               i.value = FailedTo(i.op) \o cause

\* A signed operation was rejected for mismatched chains with the bare cause.
C24_Witness ==
  \E p \in Procs :
    /\ inv[p].op = "setHintSigned"
    /\ PreconditionFailed(inv[p])
    /\ inv[p].value = "Provided WalletClient and MetaTransactionWalletClient must be on the same chain."


NamesOf(pairs) == [k \in DOMAIN pairs |-> pairs[k][1]]

SignRequestWellFormed(i, k) ==
  LET request == i.calls[k].args
  IN  /\ NamesOf(request.message) = NamesOf(request.types.fields)
      /\ request.primaryType = request.types.struct
      /\ FieldValue(request.message, "signer") = Signer.account
      /\ request.account = Signer.account
      /\ \E j \in 1..(k - 1) :
           /\ i.calls[j].fn = "nonces"
           /\ i.calls[j].args = <<Signer.account>>
           /\ i.returns[j].ok
           /\ i.returns[j].value = FieldValue(request.message, "nonce")

C26_MessageMatchesSchema ==
  \A p \in Procs : \A k \in CallsOf(inv[p], "signTypedData") : SignRequestWellFormed(inv[p], k)

\* A batch operation with metadata asked for a signature over a message of
\* seven fields carrying a nonce other than the initial one of the model.
C26_Witness ==
  \E p \in Procs : \E k \in CallsOf(inv[p], "signTypedData") :
    /\ inv[p].op = "setHintsSigned"
    /\ Len(inv[p].calls[k].args.message) = 7
    /\ FieldValue(inv[p].calls[k].args.message, "nonce") = 1


(***************************************************************************)
(* C27: within one signed invocation the schema has a metadata field       *)
(* exactly when the message has one, exactly when the write arguments have *)
(* a metadata argument, and all three exactly when a metadata argument was *)
(* supplied to the operation: an empty array and the empty byte string 0x  *)
(* count as supplied, and are what the message and the write carry.        *)
(***************************************************************************)
HasField(pairs, name) == \E k \in DOMAIN pairs : pairs[k][1] = name

C27_MetadataDecisionsAgree ==
  \A p \in Procs :
    LET i        == inv[p]
        supplied == i.params.metadata.some
    IN  i.op \in SignedOps =>
          /\ \A k \in CallsOf(i, "signTypedData") :
               /\ HasField(i.calls[k].args.types.fields, "metadata") <=> supplied
               /\ HasField(i.calls[k].args.message, "metadata") <=> supplied
               /\ supplied =>
                    FieldValue(i.calls[k].args.message, "metadata") = i.params.metadata.val
          /\ \A k \in CallsTo(i, "write") :
               /\ Len(i.calls[k].args) = (IF supplied THEN 7 ELSE 6)
               /\ supplied => i.calls[k].args[5] = i.params.metadata.val

\* A signed batch operation that was given the empty array as metadata
\* submitted it as the fifth of seven arguments.
C27_Witness ==
  \E p \in Procs : \E k \in CallsTo(inv[p], "write") :
    /\ inv[p].op = "setHintsSigned"
    /\ inv[p].params.metadata = Some(<<>>)
    /\ Len(inv[p].calls[k].args) = 7
    /\ inv[p].calls[k].args[5] = <<>>


(***************************************************************************)
(* C28: the batch operations do not compare the lengths of their arrays.   *)
(* A setHints / setHintsSigned invocation whose keys, values and metadata  *)
(* arrays differ in length is never rejected by the controller for that:   *)
(* once it is authorized, and as long as no external call fails, it goes   *)
(* on to the signature request (signed variant) and to the write call,     *)
(* both carrying the arrays as they were supplied; only the registry       *)
(* rejects the write.                                                      *)
(***************************************************************************)
LengthsDiffer(params) ==
  \/ Len(params.keys) # Len(params.values)
  \/ params.metadata.some /\ Len(params.metadata.val) # Len(params.keys)

\* Every call invocation i has made so far has returned successfully.
AllCallsSucceeded(i) ==
  /\ Len(i.returns) = Len(i.calls)
  /\ \A k \in DOMAIN i.returns : i.returns[k].ok

C28_NoLengthValidation ==
  \A p \in Procs :
    LET i == inv[p]
    IN  (i.op \in BatchOps /\ LengthsDiffer(i.params)) =>
          /\ (OwnerReadReturned(i, TRUE) /\ AllCallsSucceeded(i)) =>
               /\ i.status # "rejected"
               /\ i.status = "resolved" => CallsTo(i, "write") # {}
          /\ \A k \in CallsOf(i, "signTypedData") :
               /\ FieldValue(i.calls[k].args.message, "keys") = i.params.keys
               /\ FieldValue(i.calls[k].args.message, "values") = i.params.values
               /\ i.params.metadata.some =>
                    FieldValue(i.calls[k].args.message, "metadata") = i.params.metadata.val
          /\ \A k \in CallsTo(i, "write") :
               /\ i.calls[k].args[3] = i.params.keys
               /\ i.calls[k].args[4] = i.params.values
               /\ i.params.metadata.some => i.calls[k].args[5] = i.params.metadata.val
               /\ i.op = "setHintsSigned" => CallsOf(i, "signTypedData") # {}
               /\ k \in DOMAIN i.returns => ~i.returns[k].ok

\* A signed batch of two keys and one value was signed, submitted and
\* reverted by the registry.
C28_Witness ==
  \E p \in Procs : \E k \in CallsTo(inv[p], "write") :
    /\ inv[p].op = "setHintsSigned"
    /\ Len(inv[p].params.keys) = 2 /\ Len(inv[p].params.values) = 1
    /\ CallsOf(inv[p], "signTypedData") # {}
    /\ k \in DOMAIN inv[p].returns
    /\ inv[p].returns[k].value = MsgReverted
    /\ inv[p].status = "rejected"


(***************************************************************************)
(* C29: an invocation is one linear pass validate, authorize, sign,        *)
(* submit.  It makes at most one authorization read, one nonce read, one   *)
(* signature request and one write call, each call belongs to a later step *)
(* than the call before it, a step of the invocation adds at most one call *)
(* to those made and takes none back, and once a call has failed or the    *)
(* invocation has been rejected, it makes no further call and stays as it  *)
(* is.                                                                     *)
(***************************************************************************)
\* The step of the pipeline a call belongs to.
StepOf(call) ==
  CASE call.fn \in {"identityIsOwner", "identityIsDelegate", "getHint"} -> 1
    [] call.fn = "nonces"        -> 2
    [] call.fn = "version"       -> 3
    [] call.fn = "signTypedData" -> 4
    [] call.target = "write"     -> 5

LinearPass(i) ==
  /\ \A fn \in {"identityIsOwner", "identityIsDelegate", "nonces", "version", "signTypedData"} :
       Cardinality(CallsOf(i, fn)) <= 1
  /\ Cardinality(CallsTo(i, "write")) <= 1
  /\ \A j, k \in DOMAIN i.calls : j < k => StepOf(i.calls[j]) < StepOf(i.calls[k])
  /\ \A k \in DOMAIN i.returns :
       ( \/ ~i.returns[k].ok
         \/ /\ i.calls[k].fn \in {"identityIsOwner", "identityIsDelegate"}
            /\ i.returns[k].value = FALSE ) =>
         /\ k = Len(i.calls)
         /\ i.status = "rejected"

C29_LinearPipelineNoRetry ==
  [][\A p \in Procs :
       /\ LinearPass(inv'[p])
       /\ inv[p].calls # inv'[p].calls =>
            /\ Len(inv'[p].calls) = Len(inv[p].calls) + 1
            /\ SubSeq(inv'[p].calls, 1, Len(inv[p].calls)) = inv[p].calls
       /\ inv[p].status # "pending" => inv'[p] = inv[p]]_vars

\* A signed operation failed at its signature request, after three reads and
\* before any write.
C29_Witness ==
  \E p \in Procs :
    /\ inv[p].op = "setHintSigned"
    /\ Len(inv[p].calls) = 4
    /\ LastCall(inv[p]).fn = "signTypedData"
    /\ Len(inv[p].returns) = 4 /\ ~inv[p].returns[4].ok
    /\ inv[p].status = "rejected"


(***************************************************************************)
(* C30: addListDelegate normalizes the expiry.  An integer passed as a     *)
(* number and the same integer passed as a bigint are submitted as the     *)
(* same fourth argument of the write, and the fourth argument of every     *)
(* write is an unsigned integer of the registry's width.                   *)
(***************************************************************************)
\* What addListDelegate hands to the write call as fourth argument for an
\* expiry it does not refuse.
SubmittedExpiry(until) == WriteArgs("addListDelegate",
                                    [namespace |-> ALICE, list |-> "list", delegate |-> BOB,
                                     delegateUntil |-> until],
                                    Undefined, Undefined)[4]

C30_ExpiryIsNormalized ==
  /\ \A x, y \in DelegateUntils :
       (x.integral /\ y.integral /\ x.val = y.val) => SubmittedExpiry(x) = SubmittedExpiry(y)
  /\ \A p \in Procs : \A k \in CallsTo(inv[p], "write") :
       inv[p].op = "addListDelegate" =>
         (0 <= inv[p].calls[k].args[4] /\ inv[p].calls[k].args[4] <= UintMax)


(***************************************************************************)
(* C31: the controller holds no mutable state.  No step of any operation,  *)
(* successful or failed, changes the clients or the contract binding of    *)
(* the instance; a step of one invocation leaves the other invocation as   *)
(* it is; the nonce and the domain version an invocation signs are those   *)
(* its own reads returned; and whatever the interleaving, two invocations  *)
(* of the same operation with the same arguments whose calls returned the  *)
(* same values so far have made the same next call with the same           *)
(* arguments.                                                              *)
(***************************************************************************)
\* The k-th call of i and of j follows from equal inputs and equal returns.
SameCallForSameReturns(i, j) ==
  (i.op = j.op /\ i.params = j.params) =>
    \A k \in DOMAIN i.calls \cap DOMAIN j.calls :
      (\A n \in 1..(k - 1) : i.returns[n] = j.returns[n]) => i.calls[k] = j.calls[k]

C31_NoMutableState ==
  [][/\ ctl' = ctl
     /\ \A p \in Procs :
          /\ inv'[p] # inv[p] => \A q \in Procs \ {p} : inv'[q] = inv[q]
          /\ inv'[p].op \in SignedOps =>
               /\ NonceIsThisInvocationsRead(inv'[p])
               /\ \A k \in CallsOf(inv'[p], "signTypedData") :
                    \E n \in CallsOf(inv'[p], "version") :
                      /\ n < k
                      /\ inv'[p].returns[n].ok
                      /\ inv'[p].calls[k].args.domain.version = inv'[p].returns[n].value
          /\ \A q \in Procs \ {p} : SameCallForSameReturns(inv'[p], inv'[q])
    ]_vars

\* Two invocations are in flight on the instance at once: one waits for its
\* write, the other for its signature, and the instance is as constructed.
C31_Witness ==
  /\ inv[1].pc = "write" /\ inv[1].op = "setHintSigned"
  /\ inv[2].pc = "signTypedData" /\ inv[2].op = "setHintSigned"
  /\ ctl = Constructor(Config(NoClient, Client(SEPOLIA, BOB), Client(SEPOLIA, ALICE),
                              RegistryAddress))


(***************************************************************************)
(* C32: the authorization is not validated again.  An invocation makes its *)
(* authorization read once; when that read has returned true and the       *)
(* owner of the list has changed since, every later call of the invocation *)
(* that returns successfully is still followed by the next call, up to the *)
(* signature request and the write call.                                   *)
(***************************************************************************)
\* The principal invocation i was authorized for is not the owner now.
RoleLost(i) == OwnerReadReturned(i, TRUE) /\ ~IdentityIsOwner(registry, i.calls[1].args)

C32_AuthorizationNotRevalidated ==
  [][\A p \in Procs :
       /\ inv'[p].op \in Ops => CallsOf(inv'[p], "identityIsOwner") \subseteq {1}
       /\ ( /\ inv[p].op \in Ops
            /\ RoleLost(inv[p])
            /\ LastCall(inv[p]).target # "write"
            /\ Len(inv'[p].returns) = Len(inv[p].returns) + 1
            /\ inv'[p].returns[Len(inv'[p].returns)].ok ) =>
            /\ Len(inv'[p].calls) = Len(inv[p].calls) + 1
            /\ inv'[p].status = "pending"
    ]_vars

\* A signed operation has asked for the signature and submitted its write
\* although its signer, the owner when the invocation asked, is not the owner
\* at the time of the write call.
C32_Witness ==
  \E p \in Procs :
    /\ inv[p].op = "setHintSigned"
    /\ RoleLost(inv[p])
    /\ CallsOf(inv[p], "signTypedData") # {}
    /\ inv[p].pc = "write"
    /\ Len(inv[p].returns) = Len(inv[p].calls) - 1


(***************************************************************************)
(* C33                                                                     *)
(***************************************************************************)
\* The 14 operation variants.
DeclaredKinds ==
  {"SetHintSigned", "SetHintSignedMetadata", "SetHintsSigned", "SetHintsSignedMetadata",
   "SetHintDelegatedSigned", "SetHintDelegatedSignedMetadata",
   "SetHintsDelegatedSigned", "SetHintsDelegatedSignedMetadata",
   "AddListDelegateSigned", "RemoveListDelegateSigned", "SetListStatusSigned",
   "SetListOwnerSigned", "SetMetadataSigned", "SetMetadataDelegatedSigned"}

\* What the signed operations of the controller ask the selector for.
RequestedKinds ==
  {SignedTypeKey(op, [metadata |-> md]) : op \in SignedOps, md \in {None, Some("0x")}}

\* Inputs that are no operation variant.
UnknownKinds == {Undefined, "SetHint", "setHintSigned", "14"}

\* A selector, with the member access of its enum, is total on the 14 variants,
\* fails on anything else, and serves what the controller requests.
SelectorIsTotal(Selector(_), Member(_)) ==
  /\ \A kind \in DeclaredKinds :
       /\ Member(kind) = kind
       /\ ~Selector(Member(kind)).threw
       /\ Selector(Member(kind)).struct # Undefined
       /\ Selector(Member(kind)).fields # <<>>
  /\ \A x \in UnknownKinds :
       /\ Selector(x).threw
       /\ Selector(x).error = "Unknown signed data type " \o x
  /\ \A kind \in RequestedKinds : ~Selector(Member(kind)).threw

\* The selector of src/unnamed/part_000 alone.
SelectorOfPart000IsTotal == SelectorIsTotal(getSignedDataType, SignedDataTypeMember)

\* C33: getSignedDataType returns a schema with one struct for each of the 14
\* SignedDataType members and throws the unknown-kind error for every other
\* input, so that every member the signed operations of the controller request
\* yields a schema: of the selector in either source file that declares one,
\* and in every signed invocation, which never fails with the unknown-kind
\* error.
C33_SelectorIsTotal ==
  /\ Cardinality(DeclaredKinds) = 14
  /\ RequestedKinds = {"SetHintSigned", "SetHintSignedMetadata",
                       "SetHintsSigned", "SetHintsSignedMetadata"}
  /\ SelectorIsTotal(getSignedDataType, SignedDataTypeMember)
  /\ SelectorIsTotal(utils_getSignedDataType, utils_SignedDataTypeMember)
  /\ \A p \in Procs :
       (inv[p].op \in SignedOps /\ inv[p].status = "rejected") =>
         \A x \in DeclaredKinds \cup UnknownKinds :
           inv[p].value # FailedTo(inv[p].op) \o "Unknown signed data type " \o x


(***************************************************************************)
(* C34                                                                     *)
(***************************************************************************)
SingleHintKinds == {"SetHintSigned", "SetHintSignedMetadata",
                    "SetHintDelegatedSigned", "SetHintDelegatedSignedMetadata"}
BatchHintKinds  == {"SetHintsSigned", "SetHintsSignedMetadata",
                    "SetHintsDelegatedSigned", "SetHintsDelegatedSignedMetadata"}
SetMetadataKinds == {"SetMetadataSigned", "SetMetadataDelegatedSigned"}
WithMetadataKinds == {"SetHintSignedMetadata", "SetHintDelegatedSignedMetadata",
                      "SetHintsSignedMetadata", "SetHintsDelegatedSignedMetadata"}

\* The fields the claim names for a kind, between list and signer.
OwnFieldsAsStated(kind) ==
  CASE kind \in SingleHintKinds -> << <<"key", "bytes32">>, <<"value", "bytes32">> >>
    [] kind \in BatchHintKinds  -> << <<"keys", "bytes32[]">>, <<"values", "bytes32[]">> >>
    [] kind = "AddListDelegateSigned" ->
         << <<"delegate", "address">>, <<"untilTimestamp", "uint256">> >>
    [] kind = "RemoveListDelegateSigned" -> << <<"delegate", "address">> >>
    [] kind = "SetListStatusSigned" -> << <<"revoked", "bool">> >>
    [] kind = "SetListOwnerSigned"  -> << <<"newOwner", "address">> >>

\* The same, with the metadata field of the kinds that carry metadata.
OwnFields(kind) ==
  CASE kind \in SetMetadataKinds ->
         << <<"key", "bytes32">>, <<"value", "bytes32">>, <<"metadata", "bytes">> >>
    [] kind \in WithMetadataKinds ->
         OwnFieldsAsStated(kind) \o
           << <<"metadata", IF kind \in BatchHintKinds THEN "bytes[]" ELSE "bytes">> >>
    [] OTHER -> OwnFieldsAsStated(kind)

FirstFields == << <<"namespace", "address">>, <<"list", "bytes32">> >>
LastFields  == << <<"signer", "address">>, <<"nonce", "uint256">> >>

NoDuplicateName(fields) ==
  \A j, k \in DOMAIN fields : fields[j][1] = fields[k][1] => j = k

\* The schema of `kind` starts and ends as every schema does and has no
\* field name twice.
FramedSchema(kind) ==
  LET fields == getSignedDataType(kind).fields
  IN  /\ ~getSignedDataType(kind).threw
      /\ Len(fields) >= 4
      /\ SubSeq(fields, 1, 2) = FirstFields
      /\ SubSeq(fields, Len(fields) - 1, Len(fields)) = LastFields
      /\ NoDuplicateName(fields)

\* C34 as stated: each of the 14 schemas starts with (namespace: address, list:
\* bytes32), ends with (signer: address, nonce: uint256), has no field name
\* twice, and has between them exactly key, value (bytes32) or keys, values
\* (bytes32[]) for the hint kinds, delegate and untilTimestamp for add-delegate,
\* delegate for remove-delegate, revoked for list status and newOwner for list
\* owner.
C34_SchemaFieldsAsStated ==
  /\ \A kind \in DeclaredKinds :
       /\ FramedSchema(kind)
       /\ kind \notin SetMetadataKinds =>
            getSignedDataType(kind).fields = FirstFields \o OwnFieldsAsStated(kind) \o LastFields
  /\ \A p \in Procs : \A k \in CallsOf(inv[p], "signTypedData") :
       \E kind \in DeclaredKinds \ SetMetadataKinds :
         inv[p].calls[k].args.types.fields =
           FirstFields \o OwnFieldsAsStated(kind) \o LastFields

\* C34, amended: as stated, and the kinds that carry metadata have the field
\* metadata (bytes, or bytes[] in a batch) after value/values: the four hint
\* kinds with metadata, and the two set-metadata kinds, whose own fields are
\* key, value, metadata.  The schema of every signature request is one of
\* these.
C34_SchemaFields ==
  /\ \A kind \in DeclaredKinds :
       /\ FramedSchema(kind)
       /\ getSignedDataType(kind).fields = FirstFields \o OwnFields(kind) \o LastFields
  /\ \A p \in Procs : \A k \in CallsOf(inv[p], "signTypedData") :
       \E kind \in DeclaredKinds :
         inv[p].calls[k].args.types.fields = FirstFields \o OwnFields(kind) \o LastFields

\* A batch with metadata was signed over the seven fields of its schema.
C34_Witness ==
  \E p \in Procs : \E k \in CallsOf(inv[p], "signTypedData") :
    /\ inv[p].calls[k].args.types.fields =
         FirstFields \o OwnFields("SetHintsSignedMetadata") \o LastFields
    /\ Len(inv[p].calls[k].args.types.fields) = 7

====
